---- MODULE Spec2Model ----
(***************************************************************************)
(* Heading classification and heading-tree reconstruction of               *)
(* pdf_converter/parsers/docling_parser.py.                                *)
(*                                                                         *)
(* A text is a sequence of one-character strings.  Positions are 1-based;  *)
(* an "end" of a match is the position of the first character after it.    *)
(* A level of NoLevel stands for Python's None.                            *)
(***************************************************************************)
EXTENDS Integers, Sequences, FiniteSets, TLC

VARIABLES
    pc,             \* which operation ran last
    text, out,      \* classifier call: the argument and the returned value
    flat_elements,  \* _build_heading_tree: the flat input, one record per block
    pos,            \* _build_heading_tree: number of blocks already consumed
    stack,          \* _build_heading_tree: the stack of (level, block index)
    children,       \* children[0] is root; children[i] the children of block i
    elements,       \* _resolve_heading_levels / _build_ir: the element list
    has_parts,      \* the has_parts flag handed to _resolve_heading_levels
    entry,          \* the element list as it was before the last resolver run
    items,          \* _extract_elements: the (label, text) items of the document
    given,          \* the element list the classification pipeline was given
    json,           \* DocumentIR.to_json: the JSON text, as a tree of JSON values
    restored,       \* DocumentIR.from_json: the body of the document parsed back
    format_returned \* _detect_marker_format: the returned value

vars == <<pc, text, out, flat_elements, pos, stack, children,
          elements, has_parts, entry, items, given, json, restored, format_returned>>

(***************************************************************************)
(* Bounds of the model.                                                    *)
(***************************************************************************)
MaxSegs == 10        \* numeric segments of a generated numbering prefix
MaxLen == 4          \* length of the exhaustively enumerated short texts
MaxFlat == 4         \* blocks in the input of _build_heading_tree
MaxLevel == 3        \* heading levels used in the input of _build_heading_tree
MaxElems == 3        \* elements handed to _resolve_heading_levels
MaxItems == 2        \* items of the document handed to _extract_elements
MaxSplitLen == 5     \* length of the texts handed to _split_compound_headings
MaxSplitElems == 3   \* elements of a sequence handed to _split_compound_headings
MaxPromoteElems == 2 \* elements of a sequence handed to a promoter
MaxGroupElems == 3   \* elements of a sequence handed to _group_list_items
MaxGiven == 2        \* elements of a sequence given to the classification pipeline
MaxMarkerItems == 4  \* items of a list given to _detect_marker_format
MaxPromoted == 3     \* elements given to the promoters and then the resolver

(***************************************************************************)
(* Characters and character classes of Python's re (str patterns).         *)
(***************************************************************************)
Digits == {"0", "1", "2", "3", "4", "5", "6", "7", "8", "9"}

Space == {" ", "\t"}

UpperSeq ==
    <<"A", "B", "C", "D", "E", "F", "G", "H", "I", "J", "K", "L", "M",
      "N", "O", "P", "Q", "R", "S", "T", "U", "V", "W", "X", "Y", "Z">>

LowerSeq ==
    <<"a", "b", "c", "d", "e", "f", "g", "h", "i", "j", "k", "l", "m",
      "n", "o", "p", "q", "r", "s", "t", "u", "v", "w", "x", "y", "z">>

Upper == {UpperSeq[i] : i \in 1..26}

Lower == {LowerSeq[i] : i \in 1..26}

WordChars == Digits \cup Upper \cup Lower \cup {"_"}

\* re.IGNORECASE folds both sides; the patterns are upper case.
ToUpper(c) ==
    IF c \in Lower THEN UpperSeq[CHOOSE i \in 1..26 : LowerSeq[i] = c] ELSE c

RomanChars == {"I", "V", "X", "L", "C", "D", "M"}

\* str.strip(): leading and trailing whitespace removed.
RECURSIVE LStrip(_)
LStrip(s) ==
    IF s # <<>> /\ Head(s) \in Space THEN LStrip(Tail(s)) ELSE s

RECURSIVE RStrip(_)
RStrip(s) ==
    IF s # <<>> /\ s[Len(s)] \in Space THEN RStrip(SubSeq(s, 1, Len(s) - 1)) ELSE s

Strip(s) == RStrip(LStrip(s))

\* Ends of a non-empty run of characters of class C starting at i  (C+).
RunEnds(s, i, C) ==
    {j \in (i + 1)..(Len(s) + 1) : \A k \in i..(j - 1) : s[k] \in C}

\* Ends of  \d+(?:\.\d+)*  starting at i.
RECURSIVE NumSeqEnds(_, _)
NumSeqEnds(s, i) ==
    LET D == RunEnds(s, i, Digits)
    IN  D \cup UNION {NumSeqEnds(s, j + 1) : j \in {d \in D : d <= Len(s) /\ s[d] = "."}}

\* len(group.split(".")) for the group s[i..j-1].
PartsCount(s, i, j) == Cardinality({k \in i..(j - 1) : s[k] = "."}) + 1

\* The quantifiers are greedy and the group is followed by a fixed tail, so
\* the group reported is the longest one whose tail matches.
Greedy(S) == CHOOSE j \in S : \A k \in S : k <= j

\* \b at position j: exactly one of s[j-1], s[j] is a word character.
IsWordAt(s, j) == j >= 1 /\ j <= Len(s) /\ s[j] \in WordChars

WordBoundary(s, j) == IsWordAt(s, j - 1) # IsWordAt(s, j)

Min(a, b) == IF a <= b THEN a ELSE b

Max(a, b) == IF a >= b THEN a ELSE b

NoLevel == 0

\* A level that ignores the cap of 9.
CapLevel_Uncapped(n) == n

\* min(len(parts), 9)
CapLevel(n) == Min(n, 9)

(***************************************************************************)
(* Numbering classifier: _level_from_numbering.                            *)
(***************************************************************************)
\* Ends of group 1 of  ^(\d+(?:\.\d+)+)\.?\s*$  on the stripped text t.
BareGroupEnds(t) ==
    {j \in NumSeqEnds(t, 1) :
        /\ PartsCount(t, 1, j) >= 2
        /\ \E j2 \in {j} \cup {d \in {j + 1} : j <= Len(t) /\ t[j] = "."} :
              \A k \in j2..Len(t) : t[k] \in Space}

\* Ends of group 1 of  ^(\d+(?:\.\d+)*)(\.?\s+\S)  on the text s.
NumberedGroupEnds(s) ==
    {j \in NumSeqEnds(s, 1) :
        \E j2 \in {j} \cup {d \in {j + 1} : j <= Len(s) /\ s[j] = "."} :
            \E j3 \in RunEnds(s, j2, Space) : j3 <= Len(s) /\ s[j3] \notin Space}

\* re.match(r"^\d+\.\s", text)
DotSpaceAfterNumber(s) ==
    \E j \in RunEnds(s, 1, Digits) :
        j + 1 <= Len(s) /\ s[j] = "." /\ s[j + 1] \in Space

\* re.match(r"^\d+\.\d", text)
DotDigitAfterNumber(s) ==
    \E j \in RunEnds(s, 1, Digits) :
        j + 1 <= Len(s) /\ s[j] = "." /\ s[j + 1] \in Digits

\* re.match(r"^\d+\s+[A-Z]{2}", text)
AllCapsAfterNumber(s) ==
    \E j \in RunEnds(s, 1, Digits) : \E j2 \in RunEnds(s, j, Space) :
        j2 + 1 <= Len(s) /\ s[j2] \in Upper /\ s[j2 + 1] \in Upper

\* The capitalized-word exception granted to a number of any length.
CapitalizedWordAfterDigit_AnyNumber(s) ==
    \E j \in RunEnds(s, 1, Digits) : \E j2 \in RunEnds(s, j, Space) :
        /\ j2 + 4 <= Len(s)
        /\ s[j2] \in Upper
        /\ \A k \in (j2 + 1)..(j2 + 4) : s[k] \in Lower

\* re.match(r"^\d\s+[A-Z][a-z]{4,}", text)
CapitalizedWordAfterDigit(s) ==
    /\ Len(s) >= 1 /\ s[1] \in Digits
    /\ \E j2 \in RunEnds(s, 2, Space) :
          /\ j2 + 4 <= Len(s)
          /\ s[j2] \in Upper
          /\ \A k \in (j2 + 1)..(j2 + 4) : s[k] \in Lower

\* Ends of group 1 of  ^[A-Z]\.(\d+(?:\.\d+)*)\s  on the text s.
LetterGroupEnds(s) ==
    IF Len(s) >= 2 /\ s[1] \in Upper /\ s[2] = "."
    THEN {j \in NumSeqEnds(s, 3) : j <= Len(s) /\ s[j] \in Space}
    ELSE {}

level_from_numbering(s) ==
    LET t == Strip(s)
        bare == BareGroupEnds(t)
        numbered == NumberedGroupEnds(s)
        letter == LetterGroupEnds(s)
    IN  IF bare # {}
        THEN CapLevel(PartsCount(t, 1, Greedy(bare)))
        ELSE IF numbered # {}
        THEN LET parts == PartsCount(s, 1, Greedy(numbered))
             IN  IF /\ parts = 1
                    /\ ~DotSpaceAfterNumber(s) /\ ~DotDigitAfterNumber(s)
                    /\ ~AllCapsAfterNumber(s)
                    /\ ~CapitalizedWordAfterDigit(s)
                 THEN NoLevel
                 ELSE CapLevel(parts)
        ELSE IF letter # {}
        THEN CapLevel(PartsCount(s, 3, Greedy(letter)) + 1)
        ELSE NoLevel

(***************************************************************************)
(* Structural markers: _is_structural_marker, _is_level1_structural.       *)
(***************************************************************************)
PART == <<"P", "A", "R", "T">>

CHAPTER == <<"C", "H", "A", "P", "T", "E", "R">>

APPENDIX == <<"A", "P", "P", "E", "N", "D", "I", "X">>

EXHIBIT == <<"E", "X", "H", "I", "B", "I", "T">>

ANNEX == <<"A", "N", "N", "E", "X">>

\* Ends of a case-insensitive match of one of the keywords at the start of t.
KeywordEnds(t, keywords) ==
    {Len(kw) + 1 : kw \in {k \in keywords :
        Len(k) <= Len(t) /\ \A i \in 1..Len(k) : ToUpper(t[i]) = k[i]}}

\* Ends of a non-empty run, from i, of characters whose upper case is in C.
RunEndsIgnoreCase(t, i, C) ==
    {j \in (i + 1)..(Len(t) + 1) : \A k \in i..(j - 1) : ToUpper(t[k]) \in C}

\* The numeral alternatives of _LEVEL1_STRUCTURAL_RE used for the marker too.
MarkerNumeralEnds_WithLetter(t, i) ==
    RunEndsIgnoreCase(t, i, RomanChars)
        \cup {j \in {i + 1} : i <= Len(t) /\ ToUpper(t[i]) \in Upper}
        \cup RunEnds(t, i, Digits)

\* (?:[IVXLCDM]+|\d+)
MarkerNumeralEnds(t, i) ==
    RunEndsIgnoreCase(t, i, RomanChars) \cup RunEnds(t, i, Digits)

\* (?:[IVXLCDM]+|[A-Z]|\d+)
Level1NumeralEnds(t, i) ==
    RunEndsIgnoreCase(t, i, RomanChars)
        \cup {j \in {i + 1} : i <= Len(t) /\ ToUpper(t[i]) \in Upper}
        \cup RunEnds(t, i, Digits)

\* ^(?:PART|CHAPTER)\s+(?:[IVXLCDM]+|\d+)\b   with re.IGNORECASE
STRUCTURAL_MARKER_RE(t) ==
    \E k \in KeywordEnds(t, {PART, CHAPTER}) : \E j \in RunEnds(t, k, Space) :
        \E e \in MarkerNumeralEnds(t, j) : WordBoundary(t, e)

\* ^(?:PART|CHAPTER|APPENDIX|EXHIBIT|ANNEX)\s+(?:[IVXLCDM]+|[A-Z]|\d+)\b
LEVEL1_STRUCTURAL_RE(t) ==
    \E k \in KeywordEnds(t, {PART, CHAPTER, APPENDIX, EXHIBIT, ANNEX}) :
        \E j \in RunEnds(t, k, Space) :
            \E e \in Level1NumeralEnds(t, j) : WordBoundary(t, e)

is_structural_marker(s) == STRUCTURAL_MARKER_RE(Strip(s))

is_level1_structural(s) == LEVEL1_STRUCTURAL_RE(Strip(s))

(***************************************************************************)
(* The texts the classifier is called with: every short text over a small  *)
(* alphabet, numbering prefixes of 0..MaxSegs segments between a lead and  *)
(* a trail, and keyword/numeral combinations.                              *)
(***************************************************************************)
SmallAlphabet == {"1", ".", " ", "A", "x"}

SmallTexts == UNION {[1..n -> SmallAlphabet] : n \in 0..MaxLen}

RECURSIVE Segs(_)
Segs(k) == IF k = 1 THEN <<"1">> ELSE Segs(k - 1) \o <<".", "2">>

Nums ==
    {<<>>, <<"1", "2">>, <<"1", "2", ".", "3", "4">>} \cup {Segs(k) : k \in 1..MaxSegs}

Leads ==
    {<<>>, <<" ">>, <<"A", ".">>, <<"a", ".">>, <<"A">>, <<"A", "B", ".">>}

Trails ==
    {<<>>, <<".">>, <<".", " ">>, <<" ">>, <<".", " ", "x">>, <<" ", "x">>,
     <<".", "x">>, <<"x">>, <<" ", " ", "x">>, <<"\t", " ", "x">>,
     <<" ", ".">>, <<".", ".", " ", "x">>, <<" ", "Q", "C">>,
     <<" ", "Q", "c">>, <<" ", "S", "a", "f", "e", "t">>,
     <<" ", "S", "a", "f", "e">>, <<" ", "W", "e", "e", "k">>,
     <<" ", " ", "W", "e", "e", "k", "s">>,
     <<" ", "S", "A", "f", "e", "t", "y">>, <<".", "5", " ", "x">>,
     <<" ", "x", " ">>}

NumberingTexts == {l \o n \o t : l \in Leads, n \in Nums, t \in Trails}

MarkerWords ==
    {<<"P", "A", "R", "T">>, <<"P", "a", "r", "t">>, <<"p", "a", "r", "t">>,
     <<"C", "H", "A", "P", "T", "E", "R">>,
     <<"C", "h", "a", "p", "t", "e", "r">>,
     <<"A", "P", "P", "E", "N", "D", "I", "X">>,
     <<"E", "X", "H", "I", "B", "I", "T">>, <<"A", "n", "n", "e", "x">>,
     <<"P", "A", "R", "T", "Y">>, <<"P", "A", "R">>}

MarkerSeps ==
    {<<>>, <<" ">>, <<" ", " ">>, <<"\t">>, <<"-">>}

MarkerNumerals ==
    {<<>>, <<"I">>, <<"I", "I">>, <<"i", "v">>, <<"1">>, <<"1", "2">>,
     <<"A">>, <<"b">>, <<"A", "B">>, <<"M", "I", "X">>, <<"I", "s">>,
     <<"I", "1">>, <<"1", "A">>, <<"I", "_">>, <<"d">>}

MarkerTails ==
    {<<>>, <<" ">>, <<" ", "-", " ", "G">>, <<".">>, <<"x">>}

MarkerTexts ==
    {l \o w \o sp \o n \o t : l \in {<<>>, <<" ">>}, w \in MarkerWords,
                             sp \in MarkerSeps, n \in MarkerNumerals, t \in MarkerTails}

\* The single-number texts of TestSingleNumberHeadings.
TEXT_WEEK_LOOKBACK ==
    <<"1", " ", "W", "e", "e", "k", " ", "L", "o", "o", "k", "b", "a", "c",
      "k">>

TEXT_100_ITEMS ==
    <<"1", "0", "0", " ", "i", "t", "e", "m", "s">>

TEXT_12_MONKEYS ==
    <<"1", "2", " ", "M", "o", "n", "k", "e", "y", "s">>

TEXT_INTRODUCTION ==
    <<"1", ".", " ", "I", "n", "t", "r", "o", "d", "u", "c", "t", "i", "o",
      "n">>

TEXT_QUALITY_CONTROL ==
    <<"3", " ", "Q", "U", "A", "L", "I", "T", "Y", " ", "C", "O", "N", "T",
      "R", "O", "L">>

TEXT_SAFETY_INSTRUCTIONS ==
    <<"3", " ", "S", "a", "f", "e", "t", "y", " ", "I", "n", "s", "t", "r",
      "u", "c", "t", "i", "o", "n", "s">>

SingleNumberTexts ==
    {TEXT_WEEK_LOOKBACK, TEXT_100_ITEMS, TEXT_12_MONKEYS, TEXT_INTRODUCTION,
     TEXT_QUALITY_CONTROL, TEXT_SAFETY_INSTRUCTIONS}

Texts == SmallTexts \cup NumberingTexts \cup MarkerTexts \cup SingleNumberTexts

(***************************************************************************)
(* Values shared by the specifications: what a variable holds while the    *)
(* operation it belongs to is not running.                                 *)
(***************************************************************************)
NoOut == [fn |-> "none", b |-> FALSE, n |-> NoLevel]

IdleClassifier == text = <<>> /\ out = NoOut

IdleTree == flat_elements = <<>> /\ pos = 0 /\ stack = <<>> /\ children = <<>>

IdleResolver == elements = <<>> /\ has_parts = FALSE /\ entry = <<>>

IdleExtract == items = <<>>

IdlePipeline == given = <<>>

IdleJson == json = <<>> /\ restored = <<>>

IdleDetect == format_returned = "not_called"

(***************************************************************************)
(* Classifier calls.                                                       *)
(***************************************************************************)
ClassifierInit ==
    /\ pc = "text"
    /\ IdleJson
    /\ IdleDetect
    /\ IdlePipeline
    /\ text \in Texts
    /\ out = NoOut
    /\ IdleTree /\ IdleResolver /\ IdleExtract

CallLevelFromNumbering ==
    /\ pc = "text"
    /\ pc' = "level_from_numbering"
    /\ out' = [fn |-> "level_from_numbering", b |-> FALSE,
               n |-> level_from_numbering(text)]
    /\ UNCHANGED <<text, flat_elements, pos, stack, children,
                   elements, has_parts, entry, items, given, json, restored, format_returned>>

CallIsStructuralMarker ==
    /\ pc = "text"
    /\ pc' = "is_structural_marker"
    /\ out' = [fn |-> "is_structural_marker", b |-> is_structural_marker(text),
               n |-> NoLevel]
    /\ UNCHANGED <<text, flat_elements, pos, stack, children,
                   elements, has_parts, entry, items, given, json, restored, format_returned>>

CallIsLevel1Structural ==
    /\ pc = "text"
    /\ pc' = "is_level1_structural"
    /\ out' = [fn |-> "is_level1_structural", b |-> is_level1_structural(text),
               n |-> NoLevel]
    /\ UNCHANGED <<text, flat_elements, pos, stack, children,
                   elements, has_parts, entry, items, given, json, restored, format_returned>>

ClassifierNext ==
    \/ CallLevelFromNumbering
    \/ CallIsStructuralMarker
    \/ CallIsLevel1Structural

SpecClassifier == ClassifierInit /\ [][ClassifierNext]_vars

(***************************************************************************)
(* Claims about the classifier (checked under SpecClassifier).             *)
(***************************************************************************)
AllIn(u, C) == \A i \in 1..Len(u) : u[i] \in C

StartsWithWord(t, w) ==
    Len(t) >= Len(w) /\ \A i \in 1..Len(w) : ToUpper(t[i]) = w[i]

\* t = keyword, whitespace, numeral, rest, where the rest is empty or starts
\* with a non-word character; the numeral is a run of roman-numeral letters,
\* a run of digits or, when withLetter, one letter.
DescribedMarker(t, keywords, withLetter) ==
    \E w \in keywords : \E a \in 1..Len(t) : \E b \in 1..Len(t) :
        /\ StartsWithWord(t, w)
        /\ Len(w) < a /\ a < b + 1
        /\ AllIn(SubSeq(t, Len(w) + 1, a), Space)
        /\ LET numeral == SubSeq(t, a + 1, b)
           IN  /\ numeral # <<>>
               /\ \/ AllIn([i \in 1..Len(numeral) |-> ToUpper(numeral[i])], RomanChars)
                  \/ AllIn(numeral, Digits)
                  \/ withLetter /\ Len(numeral) = 1 /\ ToUpper(numeral[1]) \in Upper
        /\ b = Len(t) \/ t[b + 1] \notin WordChars

\* C9 as stated: is_structural_marker(text) is true iff the trimmed text begins,
\* case-insensitively, with PART or CHAPTER followed by a roman numeral, an
\* arabic numeral or a letter, and then a word boundary.
C9_Original ==
    out.fn = "is_structural_marker"
        => (out.b <=> DescribedMarker(Strip(text), {PART, CHAPTER}, TRUE))

\* C9 amended: is_structural_marker(text) is true iff the trimmed text begins,
\* case-insensitively, with PART or CHAPTER, then whitespace, then a run of
\* roman-numeral letters (IVXLCDM) or a run of digits, then a word boundary;
\* a letter outside IVXLCDM does not make a marker; texts beginning with
\* APPENDIX, EXHIBIT or ANNEX are never structural markers.
C9_StructuralMarker ==
    out.fn = "is_structural_marker"
        => /\ out.b <=> DescribedMarker(Strip(text), {PART, CHAPTER}, FALSE)
           /\ (\E w \in {APPENDIX, EXHIBIT, ANNEX} : StartsWithWord(Strip(text), w))
                 => ~out.b

\* "PART A" was classified, and is not a structural marker.
C9_Witness ==
    /\ out.fn = "is_structural_marker"
    /\ text = PART \o <<" ", "A">>
    /\ ~out.b

\* u is N(.N)* : digits and single dots, starting and ending with a digit.
IsNumbering(u) ==
    /\ u # <<>>
    /\ AllIn(u, Digits \cup {"."})
    /\ u[1] \in Digits /\ u[Len(u)] \in Digits
    /\ \A i \in 1..(Len(u) - 1) : ~(u[i] = "." /\ u[i + 1] = ".")

Segments(u) == Cardinality({i \in 1..Len(u) : u[i] = "."}) + 1

\* rest = optional dot, whitespace, then a non-space character.
IsSeparatorAndText(rest) ==
    \E d \in {0, 1} : \E w \in 1..Len(rest) :
        /\ d = 1 => (rest # <<>> /\ rest[1] = ".")
        /\ d + w < Len(rest)
        /\ AllIn(SubSeq(rest, d + 1, d + w), Space)
        /\ rest[d + w + 1] \notin Space

\* C10: k >= 2 segments, bare or followed by separator and text, give
\* min(k, 9); letter, dot, k >= 1 segments, whitespace give min(k + 1, 9);
\* a lone number gives none.
C10_NumberingLevel ==
    out.fn = "level_from_numbering"
        => /\ \A j \in 1..Len(Strip(text)) :
                LET t == Strip(text)
                    u == SubSeq(t, 1, j)
                    rest == SubSeq(t, j + 1, Len(t))
                IN  (IsNumbering(u) /\ Segments(u) >= 2 /\ rest \in {<<>>, <<".">>})
                        => out.n = Min(Segments(u), 9)
           /\ \A j \in 1..Len(text) :
                LET u == SubSeq(text, 1, j)
                    rest == SubSeq(text, j + 1, Len(text))
                IN  (IsNumbering(u) /\ Segments(u) >= 2 /\ IsSeparatorAndText(rest))
                        => out.n = Min(Segments(u), 9)
           /\ \A j \in 3..(Len(text) - 1) :
                LET u == SubSeq(text, 3, j)
                IN  (/\ text[1] \in Upper /\ text[2] = "."
                     /\ IsNumbering(u) /\ text[j + 1] \in Space)
                        => out.n = Min(Segments(u) + 1, 9)
           /\ (text # <<>> /\ AllIn(text, Digits)) => out.n = NoLevel

\* A letter-prefixed numbering of nine segments or more hit the cap.
C10_Witness ==
    /\ out.fn = "level_from_numbering"
    /\ out.n = 9
    /\ Len(text) >= 2 /\ text[1] \in Upper /\ text[2] = "."
    /\ Cardinality({i \in 1..Len(text) : text[i] = "."}) >= 10

\* The position after the digits the text starts with (1 when it starts with
\* none).
NumberEnd(t) ==
    CHOOSE j \in 1..(Len(t) + 1) :
        /\ \A k \in 1..(j - 1) : t[k] \in Digits
        /\ j <= Len(t) => t[j] \notin Digits

\* The text starts with a number that no ".digit" continues.
SingleSegmentStart(t) ==
    LET j == NumberEnd(t)
    IN  /\ j > 1
        /\ ~(j + 1 <= Len(t) /\ t[j] = "." /\ t[j + 1] \in Digits)

\* Whitespace runs of the text starting right after position j - 1: their ends.
SpacesAfter(t, j) ==
    {e \in (j + 1)..(Len(t) + 1) : AllIn(SubSeq(t, j, e - 1), Space)}

\* The number is directly followed by a dot and whitespace.
FollowedByDotSpace(t) ==
    LET j == NumberEnd(t)
    IN  j + 1 <= Len(t) /\ t[j] = "." /\ t[j + 1] \in Space

\* The number is followed by whitespace and two uppercase letters.
FollowedByTwoUpper(t) ==
    \E e \in SpacesAfter(t, NumberEnd(t)) :
        e + 1 <= Len(t) /\ t[e] \in Upper /\ t[e + 1] \in Upper

\* The number is followed by whitespace and a capitalized word of at least
\* 5 letters: an uppercase letter and four or more lowercase ones.
FollowedByCapitalizedWord(t) ==
    \E e \in SpacesAfter(t, NumberEnd(t)) :
        /\ e + 4 <= Len(t)
        /\ t[e] \in Upper
        /\ AllIn(SubSeq(t, e + 1, e + 4), Lower)

\* Some non-space character follows the whitespace after the number and its
\* optional dot.
TextAfterNumber(t) ==
    LET j == NumberEnd(t)
    IN  \E d \in {j} \cup {k \in {j + 1} : j <= Len(t) /\ t[j] = "."} :
            \E e \in SpacesAfter(t, d) : e <= Len(t) /\ t[e] \notin Space

\* C11: for a text starting with a single numeric segment the level is 1 or
\* none; it is 1 only if the number is directly followed by a dot and
\* whitespace, or by whitespace and two uppercase letters, or by whitespace
\* and a capitalized word of at least 5 letters, and none otherwise; a number
\* of two or more digits followed by neither dot and whitespace nor two
\* uppercase letters gives none; with text after the number, dot and
\* whitespace, two uppercase letters, or a single digit and a capitalized
\* word give 1; the six texts of the statement give none, none, none, 1, 1, 1.
C11_SingleNumber ==
    (out.fn = "level_from_numbering" /\ SingleSegmentStart(text))
        => /\ out.n \in {NoLevel, 1}
           /\ out.n = 1 => \/ FollowedByDotSpace(text)
                           \/ FollowedByTwoUpper(text)
                           \/ FollowedByCapitalizedWord(text)
           /\ (/\ NumberEnd(text) > 2
               /\ ~FollowedByDotSpace(text)
               /\ ~FollowedByTwoUpper(text)) => out.n = NoLevel
           /\ (/\ TextAfterNumber(text)
               /\ \/ FollowedByDotSpace(text)
                  \/ FollowedByTwoUpper(text)
                  \/ NumberEnd(text) = 2 /\ FollowedByCapitalizedWord(text))
                 => out.n = 1
           /\ text \in {TEXT_WEEK_LOOKBACK, TEXT_100_ITEMS, TEXT_12_MONKEYS}
                 => out.n = NoLevel
           /\ text \in {TEXT_INTRODUCTION, TEXT_QUALITY_CONTROL,
                        TEXT_SAFETY_INSTRUCTIONS} => out.n = 1

\* "12 Monkeys" was classified: two digits and a capitalized word give none.
C11_Witness ==
    /\ out.fn = "level_from_numbering"
    /\ text = TEXT_12_MONKEYS
    /\ FollowedByCapitalizedWord(text)
    /\ out.n = NoLevel

(***************************************************************************)
(* Heading tree builder: _build_heading_tree.                              *)
(*                                                                         *)
(* A block is named by its index in flat_elements.  children[i] is the     *)
(* children list of block i (of a HeadingBlock) and children[0] is root.   *)
(***************************************************************************)
ContentTypes == {"paragraph", "list", "table", "figure", "page_break"}

HeadingBlocks == [type : {"heading"}, level : 1..MaxLevel]

ContentBlocks == [type : ContentTypes, level : {NoLevel}]

FlatInputs == UNION {[1..n -> HeadingBlocks \cup ContentBlocks] : n \in 0..MaxFlat}

IsHeading(block) == block.type = "heading"

\* list.append(x)
Append1(list, x) == list \o <<x>>

\* Pops while the top is deeper than the heading, keeping an equal level.
\* At most one entry is popped.
PopStack_PopOne(stk, level) ==
    IF stk # <<>> /\ stk[Len(stk)][1] >= level THEN SubSeq(stk, 1, Len(stk) - 1) ELSE stk

PopStack_KeepEqual(stk, level) ==
    LET keep == {n \in 0..Len(stk) : \A k \in (n + 1)..Len(stk) : stk[k][1] > level}
    IN  SubSeq(stk, 1, CHOOSE n \in keep : \A m \in keep : n <= m)

\* Pops down to the heading exactly one level above, allowing no skipped level.
PopStack_NoSkip(stk, level) ==
    LET keep == {n \in 0..Len(stk) : \A k \in (n + 1)..Len(stk) : stk[k][1] # level - 1}
    IN  SubSeq(stk, 1, CHOOSE n \in keep : \A m \in keep : n <= m)

\* while stack and stack[-1][0] >= block.level: stack.pop()
RECURSIVE PopStack(_, _)
PopStack(stk, level) ==
    IF stk # <<>> /\ stk[Len(stk)][1] >= level
    THEN PopStack(SubSeq(stk, 1, Len(stk) - 1), level)
    ELSE stk

\* Every heading appended to root, nested or not.
HeadingTarget_Root(stk) == 0

\* if stack: stack[-1][1].children.append(block) else: root.append(block)
HeadingTarget(stk) == IF stk # <<>> THEN stk[Len(stk)][2] ELSE 0

\* Content appended to root whatever heading is open.
ContentTarget_Root(stk) == 0

\* Content attached to the outermost open heading instead of the innermost.
ContentTarget_Bottom(stk) == IF stk # <<>> THEN stk[1][2] ELSE 0

\* if stack: stack[-1][1].children.append(block) else: root.append(block)
ContentTarget(stk) == IF stk # <<>> THEN stk[Len(stk)][2] ELSE 0

TreeInit ==
    /\ pc = "build_heading_tree"
    /\ IdleJson
    /\ IdleDetect
    /\ IdlePipeline
    /\ flat_elements \in FlatInputs
    /\ pos = 0
    /\ stack = <<>>
    /\ children = [i \in 0..Len(flat_elements) |-> <<>>]
    /\ IdleClassifier /\ IdleResolver /\ IdleExtract

\* One iteration of the loop on a HeadingBlock.
TreeHeading ==
    /\ pc = "build_heading_tree"
    /\ pos < Len(flat_elements)
    /\ IsHeading(flat_elements[pos + 1])
    /\ LET block == pos + 1
           level == flat_elements[block].level
           popped == PopStack(stack, level)
           target == HeadingTarget(popped)
       IN  /\ children' = [children EXCEPT ![target] = Append1(@, block)]
           /\ stack' = Append1(popped, <<level, block>>)
           /\ pos' = block
    /\ UNCHANGED <<pc, text, out, flat_elements, elements, has_parts, entry, items, given, json, restored, format_returned>>

\* One iteration of the loop on any other block.
TreeContent ==
    /\ pc = "build_heading_tree"
    /\ pos < Len(flat_elements)
    /\ ~IsHeading(flat_elements[pos + 1])
    /\ LET block == pos + 1
           target == ContentTarget(stack)
       IN  /\ children' = [children EXCEPT ![target] = Append1(@, block)]
           /\ pos' = block
    /\ UNCHANGED <<pc, text, out, flat_elements, stack, elements, has_parts, entry, items, given, json, restored, format_returned>>

\* return root (also the early return for an empty input)
TreeReturn ==
    /\ pc = "build_heading_tree"
    /\ pos = Len(flat_elements)
    /\ pc' = "built"
    /\ UNCHANGED <<text, out, flat_elements, pos, stack, children,
                   elements, has_parts, entry, items, given, json, restored, format_returned>>

TreeNext == TreeHeading \/ TreeContent \/ TreeReturn

SpecTree == TreeInit /\ [][TreeNext]_vars

(***************************************************************************)
(* Claims about the tree builder (checked under SpecTree).                 *)
(***************************************************************************)
Blocks == 1..Len(flat_elements)

Headings == {i \in Blocks : IsHeading(flat_elements[i])}

LevelOf(i) == flat_elements[i].level

Elems(list) == {list[k] : k \in 1..Len(list)}

RECURSIVE Flatten(_)
Flatten(lists) ==
    IF lists = <<>> THEN <<>> ELSE Head(lists) \o Flatten(Tail(lists))

\* The blocks below node i in the tree, in depth-first pre-order.
RECURSIVE Below(_)
Below(i) ==
    Flatten([k \in 1..Len(children[i]) |-> <<children[i][k]>> \o Below(children[i][k])])

\* The index of the next heading after i of level <= LevelOf(i), or the end.
NextNotDeeper(i) ==
    LET later == {j \in Headings : j > i /\ LevelOf(j) <= LevelOf(i)}
    IN  IF later = {} THEN Len(flat_elements) + 1
        ELSE CHOOSE j \in later : \A k \in later : j <= k

\* The blocks of the input from i + 1 up to (excluding) NextNotDeeper(i).
Following(i) == [k \in 1..(NextNotDeeper(i) - i - 1) |-> i + k]

\* The largest element of a non-empty set of indices, 0 for the empty set.
Latest(S) == IF S = {} THEN 0 ELSE CHOOSE j \in S : \A k \in S : k <= j

\* Block b is in the children list of p exactly once, and of no other node.
OnlyChildOf(b, p) ==
    /\ \A q \in 0..Len(flat_elements) : (b \in Elems(children[q])) <=> (q = p)
    /\ Cardinality({k \in 1..Len(children[p]) : children[p][k] = b}) = 1

\* C1: in the returned tree every heading below a heading N of level L has a
\* level strictly greater than L.
C1_DescendantsDeeper ==
    pc = "built"
        => \A n \in Headings : \A d \in Elems(Below(n)) :
              IsHeading(flat_elements[d]) => LevelOf(d) > LevelOf(n)

\* A level-1 heading holds a level-2 heading that holds a level-3 heading.
C1_Witness ==
    /\ pc = "built"
    /\ \E n \in Headings : \E d \in Headings : \E e \in Headings :
          /\ d \in Elems(children[n]) /\ e \in Elems(children[d])
          /\ LevelOf(n) = 1 /\ LevelOf(d) = 2 /\ LevelOf(e) = 3

\* C2 as stated: every heading's children list is exactly the run of input
\* elements between it and the next heading of level <= its own, in order.
C2_Original ==
    pc = "built" => \A n \in Headings : children[n] = Following(n)

\* C2 amended: every heading's descendants, in depth-first pre-order, are
\* exactly the input elements between it and the next heading of
\* level <= its own (or the end of the input), in input order.
C2_DescendantsAreFollowing ==
    pc = "built" => \A n \in Headings : Below(n) = Following(n)

\* A heading owns a deeper heading and the content under that heading, and
\* is closed by a later heading of its own level.
C2_Witness ==
    /\ pc = "built"
    /\ \E n \in Headings :
          /\ Len(Below(n)) >= 2
          /\ Len(children[n]) = 1
          /\ NextNotDeeper(n) <= Len(flat_elements)

\* C3: a heading h is a child of the nearest preceding heading of strictly
\* lower level, whatever the gap, and is in root iff there is none.
C3_HeadingParent ==
    pc = "built"
        => \A h \in Headings :
              OnlyChildOf(h, Latest({j \in Headings : j < h /\ LevelOf(j) < LevelOf(h)}))

\* A level-3 heading is a direct child of a level-1 heading, and a later
\* heading went back to root past both.
C3_Witness ==
    /\ pc = "built"
    /\ \E a \in Headings : \E b \in Headings : \E c \in Headings :
          /\ a < b /\ b < c
          /\ LevelOf(a) = 1 /\ LevelOf(b) = 3 /\ LevelOf(c) = 1
          /\ b \in Elems(children[a])
          /\ c \in Elems(children[0])

\* C4: a non-heading block is a child of the most recent heading before it,
\* whatever its level, or of root when no heading precedes it.
C4_ContentParent ==
    pc = "built"
        => \A b \in Blocks \ Headings :
              OnlyChildOf(b, Latest({j \in Headings : j < b}))

\* Content follows a heading nested in another heading, and content
\* precedes every heading.
C4_Witness ==
    /\ pc = "built"
    /\ \E a \in Headings : \E h \in Headings : \E b \in Blocks \ Headings :
          /\ h \in Elems(children[a])
          /\ b \in Elems(children[h])
    /\ Len(flat_elements) >= 1 /\ ~IsHeading(flat_elements[1])
    /\ 1 \in Elems(children[0])

(***************************************************************************)
(* Texts of the elements the resolver and the pipeline are run on, and     *)
(* their classification, evaluated once per text.                          *)
(***************************************************************************)
\* The two separator glyphs, U+00B7 and U+2022, each one character.
MIDDLE_DOT == "middle_dot"

BULLET == "bullet"

TEXT_PART_I ==
    <<"P", "A", "R", "T", " ", "I", " ", "-", " ", "G", "E", "N", "E", "R",
      "A", "L">>

TEXT_APPENDIX_A ==
    <<"A", "P", "P", "E", "N", "D", "I", "X", " ", "A">>

TEXT_TECHNICAL_SUPPORT ==
    <<"2", ".", " ", "T", "E", "C", "H", "N", "I", "C", "A", "L", " ", "S",
      "U", "P", "P", "O", "R", "T">>

TEXT_DOCUMENT_CONTROL ==
    <<"2", ".", "3", " ", "P", "r", "o", "j", "e", "c", "t", " ", "D", "o",
      "c", "u", "m", "e", "n", "t", " ", "C", "o", "n", "t", "r", "o", "l">>

TEXT_RFIS ==
    <<"R", "F", "I", "'", "s">>

TEXT_SUBMITTALS ==
    <<"S", "U", "B", "M", "I", "T", "T", "A", "L", "S">>

TEXT_NINE_SEGMENTS ==
    <<"1", ".", "2", ".", "3", ".", "4", ".", "5", ".", "6", ".", "7", ".",
      "8", ".", "9", " ", "D", "e", "e", "p">>

TEXT_SCOPE ==
    <<"1", ".", "2", " ", "S", "c", "o", "p", "e">>

TEXT_COMPOUND ==
    <<"P", "A", "R", "T", " ", "I", "I", " ", MIDDLE_DOT, " ", "S", "c",
      "o", "p", "e">>

HeadingTexts ==
    {TEXT_PART_I, TEXT_APPENDIX_A, TEXT_TECHNICAL_SUPPORT, TEXT_DOCUMENT_CONTROL,
     TEXT_RFIS, TEXT_SUBMITTALS, TEXT_NINE_SEGMENTS, TEXT_SCOPE, TEXT_COMPOUND}

NumberingLevels == [t \in HeadingTexts |-> level_from_numbering(t)]

Level1Structurals == [t \in HeadingTexts |-> is_level1_structural(t)]

\* _level_from_numbering(el.text)
NumberingLevelOf(t) ==
    IF t \in HeadingTexts THEN NumberingLevels[t] ELSE level_from_numbering(t)

\* _is_level1_structural(el.text)
IsLevel1Structural(t) ==
    IF t \in HeadingTexts THEN Level1Structurals[t] ELSE is_level1_structural(t)

(***************************************************************************)
(* Elements of the flat sequence (HeadingBlock, ParagraphBlock,            *)
(* _PendingListItem, TableBlock, FigureBlock).  A confidence is in         *)
(* hundredths; a classification_reason is the sequence of its "; "-joined  *)
(* entries, each <<tag, a, b>> with a and b the numbers formatted into it. *)
(***************************************************************************)
HeadingBlock(level, txt, page, runs, confidence, reason) ==
    [type |-> "heading", level |-> level, text |-> txt, page |-> page,
     runs |-> runs, confidence |-> confidence, classification_reason |-> reason]

TextRun(txt, bold) == [text |-> txt, bold |-> bold]

ParagraphBlock(txt, page, runs) ==
    [type |-> "paragraph", text |-> txt, page |-> page, runs |-> runs]

PendingListItem(txt, runs, page, enumerated, marker, nesting_depth) ==
    [type |-> "pending_list_item", text |-> txt, runs |-> runs, page |-> page,
     enumerated |-> enumerated, marker |-> marker, nesting_depth |-> nesting_depth]

TableBlock(page) == [type |-> "table", page |-> page]

FigureBlock(page) == [type |-> "figure", page |-> page]

PageBreakBlock(page) == [type |-> "page_break", page |-> page]

ReasonEntry(tag, a, b) == <<tag, a, b>>

(***************************************************************************)
(* Heading level resolution: _resolve_heading_levels.                      *)
(***************************************************************************)
\* The offset added to the level the heading already carries.
NumberingLevel_FromOwnLevel(el, num_level, level_offset) ==
    Min(el.level + level_offset, 9)

\* The numbering level plus offset without the cap of 9.
NumberingLevel_Uncapped(el, num_level, level_offset) == num_level + level_offset

\* el.level = min(num_level + level_offset, 9)
NumberingLevel(el, num_level, level_offset) == Min(num_level + level_offset, 9)

\* A heading of low confidence inherits the deepest level.
InheritedLevel_ByConfidence(el, last_level) ==
    IF el.confidence < 50 THEN 9 ELSE last_level

\* The heading keeps the level it carries instead of inheriting.
InheritedLevel_Placeholder(el, last_level) == el.level

\* el.level = last_level
InheritedLevel(el, last_level) == last_level

\* The heading keeps its confidence when it inherits.
InheritedConfidence_Kept(el) == el.confidence

\* el.confidence = min(el.confidence, 0.50)
InheritedConfidence(el) == Min(el.confidence, 50)

\* The first heading is the document title unless it is a structural
\* marker, numbered or not.
AssignLevel_TitleFirst(el, first_heading_seen, last_level, level_offset) ==
    LET num_level == NumberingLevelOf(el.text)
    IN  IF IsLevel1Structural(el.text)
        THEN [el EXCEPT !.level = 1,
                        !.confidence = Max(el.confidence, 95),
                        !.classification_reason =
                            Append1(@, ReasonEntry("level:structural_marker", 0, 0))]
        ELSE IF ~first_heading_seen
        THEN [el EXCEPT !.level = 1,
                        !.confidence = Min(el.confidence, 80),
                        !.classification_reason =
                            Append1(@, ReasonEntry("level:first_heading_as_title", 0, 0))]
        ELSE IF num_level # NoLevel
        THEN [el EXCEPT !.level = NumberingLevel(el, num_level, level_offset),
                        !.classification_reason =
                            Append1(@, ReasonEntry("level:numbering", num_level,
                                                   level_offset))]
        ELSE [el EXCEPT !.level = InheritedLevel(el, last_level),
                        !.confidence = InheritedConfidence(el),
                        !.classification_reason =
                            Append1(@, ReasonEntry("level:inherited", last_level, 0))]

\* The body of the loop for one HeadingBlock: level, confidence and reason.
AssignLevel(el, first_heading_seen, last_level, level_offset) ==
    LET num_level == NumberingLevelOf(el.text)
        assigned ==
            IF IsLevel1Structural(el.text)
            THEN [el EXCEPT !.level = 1,
                            !.confidence = Max(el.confidence, 95),
                            !.classification_reason =
                                Append1(@, ReasonEntry("level:structural_marker", 0, 0))]
            ELSE IF num_level # NoLevel
            THEN [el EXCEPT !.level = NumberingLevel(el, num_level, level_offset),
                            !.classification_reason =
                                Append1(@, ReasonEntry("level:numbering", num_level,
                                                       level_offset))]
            ELSE IF ~first_heading_seen
            THEN [el EXCEPT !.level = 1,
                            !.confidence = Min(el.confidence, 80),
                            !.classification_reason =
                                Append1(@, ReasonEntry("level:first_heading_as_title", 0, 0))]
            ELSE [el EXCEPT !.level = InheritedLevel(el, last_level),
                            !.confidence = InheritedConfidence(el),
                            !.classification_reason =
                                Append1(@, ReasonEntry("level:inherited", last_level, 0))]
    IN  assigned

\* The loop without  last_level = el.level : last_level keeps the value it
\* was initialised with.
RECURSIVE ResolveLoop_LastLevelKept(_, _, _, _, _)
ResolveLoop_LastLevelKept(els, k, first_heading_seen, last_level, level_offset) ==
    IF k > Len(els) THEN els
    ELSE IF els[k].type # "heading"
    THEN ResolveLoop_LastLevelKept(els, k + 1, first_heading_seen, last_level,
                                   level_offset)
    ELSE LET el == AssignLevel(els[k], first_heading_seen, last_level, level_offset)
         IN  ResolveLoop_LastLevelKept([els EXCEPT ![k] = el], k + 1, TRUE, last_level,
                                       level_offset)

\* for el in elements[k:]  with the loop's two local variables.
RECURSIVE ResolveLoop(_, _, _, _, _)
ResolveLoop(els, k, first_heading_seen, last_level, level_offset) ==
    IF k > Len(els) THEN els
    ELSE IF els[k].type # "heading"
    THEN ResolveLoop(els, k + 1, first_heading_seen, last_level, level_offset)
    ELSE LET el == AssignLevel(els[k], first_heading_seen, last_level, level_offset)
         IN  ResolveLoop([els EXCEPT ![k] = el], k + 1, TRUE, el.level, level_offset)

LevelOffset(parts) == IF parts THEN 1 ELSE 0

InitialLastLevel == 2

\* The pass also empties the runs of the headings, as the splitter does.
resolve_heading_levels_ClearsRuns(els, parts) ==
    LET resolved == ResolveLoop(els, 1, FALSE, InitialLastLevel, LevelOffset(parts))
    IN  [i \in 1..Len(resolved) |->
            IF resolved[i].type = "heading" THEN [resolved[i] EXCEPT !.runs = <<>>]
            ELSE resolved[i]]

resolve_heading_levels(els, parts) ==
    ResolveLoop(els, 1, FALSE, InitialLastLevel, LevelOffset(parts))

(***************************************************************************)
(* Direct calls of _resolve_heading_levels, as the unit tests make them:   *)
(* any has_parts, headings carrying any level on entry.                    *)
(***************************************************************************)
ResolverTexts ==
    {TEXT_PART_I, TEXT_TECHNICAL_SUPPORT, TEXT_DOCUMENT_CONTROL, TEXT_RFIS,
     TEXT_NINE_SEGMENTS}

EntryLevels == {2, 7}

LabelReason == <<ReasonEntry("docling_label:section_header", 0, 0)>>

ResolverElements ==
    {HeadingBlock(l, t, 1, <<>>, 85, LabelReason) : l \in EntryLevels, t \in ResolverTexts}
        \cup {ParagraphBlock(TEXT_RFIS, 1, <<>>)}

\* The headings of test_unnumbered_inherits_last_level.
InheritanceExample ==
    [i \in 1..5 |->
        HeadingBlock(2, <<TEXT_PART_I, TEXT_TECHNICAL_SUPPORT, TEXT_DOCUMENT_CONTROL,
                          TEXT_RFIS, TEXT_SUBMITTALS>>[i], 1, <<>>, 85, LabelReason)]

\* A level-1 marker that is no PART/CHAPTER marker, between numbered headings.
AppendixExample ==
    [i \in 1..4 |->
        HeadingBlock(<<2, 7, 2, 7>>[i],
                     <<TEXT_TECHNICAL_SUPPORT, TEXT_APPENDIX_A, TEXT_DOCUMENT_CONTROL,
                       TEXT_RFIS>>[i], 1, <<>>, 85, LabelReason)]

\* A title, a structural marker, a numbered heading and an inheriting heading
\* with the given confidences, as TestHeadingConfidenceAssignment sets them.
ConfidenceExample(confidences) ==
    [i \in 1..4 |->
        HeadingBlock(2, <<TEXT_RFIS, TEXT_PART_I, TEXT_TECHNICAL_SUPPORT,
                          TEXT_SUBMITTALS>>[i], 1, <<>>, confidences[i], LabelReason)]

ConfidenceExamples ==
    {ConfidenceExample(<<100, 30, 60, 100>>), ConfidenceExample(<<30, 100, 100, 30>>),
     ConfidenceExample(<<80, 95, 0, 50>>), ConfidenceExample(<<0, 0, 100, 0>>)}

\* Blocks of every type between headings that carry runs.
FrameExample ==
    <<TableBlock(1),
      HeadingBlock(2, TEXT_RFIS, 1, <<TextRun(TEXT_RFIS, TRUE)>>, 85, LabelReason),
      ParagraphBlock(TEXT_TECHNICAL_SUPPORT, 1, <<TextRun(TEXT_TECHNICAL_SUPPORT, FALSE)>>),
      PendingListItem(TEXT_DOCUMENT_CONTROL, <<>>, 2, TRUE, <<"1", ".">>, 0),
      FigureBlock(2),
      HeadingBlock(7, TEXT_SUBMITTALS, 2, <<TextRun(TEXT_SUBMITTALS, FALSE)>>, 85, <<>>),
      PageBreakBlock(2)>>

ResolverInputs ==
    UNION {[1..n -> ResolverElements] : n \in 0..MaxElems}
        \cup {InheritanceExample, AppendixExample, FrameExample} \cup ConfidenceExamples

ResolverInit ==
    /\ pc = "resolve_heading_levels"
    /\ IdleJson
    /\ IdleDetect
    /\ IdlePipeline
    /\ elements \in ResolverInputs
    /\ has_parts \in BOOLEAN
    /\ entry = <<>>
    /\ IdleClassifier /\ IdleTree /\ IdleExtract

\* _resolve_heading_levels(elements, has_parts)
Resolve ==
    /\ pc = "resolve_heading_levels"
    /\ pc' = "resolved"
    /\ entry' = elements
    /\ elements' = resolve_heading_levels(elements, has_parts)
    /\ UNCHANGED <<text, out, flat_elements, pos, stack, children, has_parts, items, given, json, restored, format_returned>>

\* The same call again, on the list the first call resolved.
ResolveAgain ==
    /\ pc = "resolved"
    /\ pc' = "resolved_twice"
    /\ entry' = elements
    /\ elements' = resolve_heading_levels(elements, has_parts)
    /\ UNCHANGED <<text, out, flat_elements, pos, stack, children, has_parts, items, given, json, restored, format_returned>>

ResolverNext == Resolve \/ ResolveAgain

SpecResolver == ResolverInit /\ [][ResolverNext]_vars

(***************************************************************************)
(* Claims about the level resolver (checked under SpecResolver).           *)
(***************************************************************************)
HeadingIndices(els) == {i \in 1..Len(els) : els[i].type = "heading"}

LevelsOf(els) ==
    [i \in 1..Len(els) |-> IF els[i].type = "heading" THEN els[i].level ELSE NoLevel]

LastReasonTag(el) == el.classification_reason[Len(el.classification_reason)][1]

\* The level the four rules give heading i of the list before the run, read
\* off the texts and the levels the run assigned to the headings before i.
RuleLevel(before, after, i, parts) ==
    LET t == before[i].text
        n == level_from_numbering(t)
        earlier == {j \in HeadingIndices(before) : j < i}
    IN  IF is_level1_structural(t) THEN 1
        ELSE IF n # NoLevel THEN Min(n + (IF parts THEN 1 ELSE 0), 9)
        ELSE IF earlier = {} THEN 1
        ELSE after[Latest(earlier)].level

\* C5: every heading gets level 1 if level-1 structural, else
\* min(n + offset, 9) if numbered, else 1 if first, else the level just
\* assigned to the nearest preceding heading; the inheritance example
\* resolves to [1, 2, 3, 3, 3] with offset 1.
C5_ResolvedLevels ==
    pc \in {"resolved", "resolved_twice"}
        => /\ \A i \in HeadingIndices(entry) :
                elements[i].level = RuleLevel(entry, elements, i, has_parts)
           /\ (pc = "resolved" /\ entry = InheritanceExample /\ has_parts)
                => LevelsOf(elements) = <<1, 2, 3, 3, 3>>

\* The inheritance example was resolved with offset 1.
C5_Witness ==
    /\ pc = "resolved"
    /\ entry = InheritanceExample
    /\ has_parts
    /\ LevelsOf(elements) = <<1, 2, 3, 3, 3>>
    /\ LastReasonTag(elements[5]) = "level:inherited"

\* C6: after the resolver has run, with either offset, every heading's
\* level is in 1..9 whatever level it carried and however many segments.
C6_LevelsInRange ==
    pc \in {"resolved", "resolved_twice"}
        => \A i \in HeadingIndices(elements) : elements[i].level \in 1..9

\* A nine-segment heading that carried level 7 was resolved with offset 1
\* and holds level 9.
C6_Witness ==
    /\ pc = "resolved"
    /\ has_parts
    /\ \E i \in HeadingIndices(elements) :
          /\ entry[i].text = TEXT_NINE_SEGMENTS
          /\ entry[i].level = 7
          /\ elements[i].level = 9

\* The list with every heading carrying level l.
WithEntryLevel(els, l) ==
    [i \in 1..Len(els) |->
        IF els[i].type = "heading" THEN [els[i] EXCEPT !.level = l] ELSE els[i]]

\* C7: a second run on the resolved list gives every heading the level the
\* first run gave it, and a run's levels do not depend on the levels the
\* headings carry on entry.
C7_ResolveTwice ==
    /\ pc = "resolved_twice" => LevelsOf(elements) = LevelsOf(entry)
    /\ pc = "resolved"
          => \A l \in EntryLevels :
                LevelsOf(elements)
                    = LevelsOf(resolve_heading_levels(WithEntryLevel(entry, l), has_parts))

\* The second run ran on a list where a numbered heading of level 3 is
\* followed by a heading that inherited level 3.
C7_Witness ==
    /\ pc = "resolved_twice"
    /\ \E i \in HeadingIndices(elements) : \E j \in HeadingIndices(elements) :
          /\ i < j
          /\ LastReasonTag(elements[i]) = "level:numbering"
          /\ LastReasonTag(elements[j]) = "level:inherited"
          /\ entry[i].level = 3 /\ entry[j].level = 3
          /\ elements[j].level = 3

(***************************************************************************)
(* Compound heading splitter: _split_compound_headings.                    *)
(***************************************************************************)
\* Starts of a match of  \s+[·•]\s+  in t.
CompoundSepStarts(t) ==
    {i \in 1..Len(t) :
        \E j \in RunEnds(t, i, Space) :
            /\ j + 1 <= Len(t)
            /\ t[j] \in {MIDDLE_DOT, BULLET}
            /\ t[j + 1] \in Space}

\* _COMPOUND_SEP_RE.search(el.text)
HasCompoundSep(t) == CompoundSepStarts(t) # {}

\* The split made at the last separator instead of the first.
SplitFirst_AtLast(t) ==
    LET start == CHOOSE i \in CompoundSepStarts(t) :
                     \A k \in CompoundSepStarts(t) :
                         Greedy(RunEnds(t, k, Space)) <= Greedy(RunEnds(t, i, Space))
        glyph == Greedy(RunEnds(t, start, Space))
        stop == Greedy(RunEnds(t, glyph + 1, Space))
    IN  <<Strip(SubSeq(t, 1, start - 1)), Strip(SubSeq(t, stop, Len(t)))>>

\* _COMPOUND_SEP_RE.split(el.text, maxsplit=1): the leftmost match, both
\* whitespace runs taken greedily; each part stripped.
SplitFirst(t) ==
    LET start == CHOOSE i \in CompoundSepStarts(t) : \A k \in CompoundSepStarts(t) : i <= k
        glyph == Greedy(RunEnds(t, start, Space))
        stop == Greedy(RunEnds(t, glyph + 1, Space))
    IN  <<Strip(SubSeq(t, 1, start - 1)), Strip(SubSeq(t, stop, Len(t)))>>

\* The provenance replaced by the one new entry.
SplitReason_Replaced(reason) == <<ReasonEntry("compound_split", 0, 0)>>

\* prev = el.classification_reason or "unknown"
\* el.classification_reason = f"{prev}; compound_split"
SplitReason(reason) ==
    Append1(IF reason = <<>> THEN <<ReasonEntry("unknown", 0, 0)>> ELSE reason,
            ReasonEntry("compound_split", 0, 0))

\* The remainder inserted as a heading like the one it was split from.
RECURSIVE split_compound_headings_HeadingRemainder(_)
split_compound_headings_HeadingRemainder(els) ==
    IF els = <<>> THEN <<>>
    ELSE LET el == Head(els)
         IN  IF el.type = "heading" /\ HasCompoundSep(el.text)
             THEN LET parts == SplitFirst(el.text)
                      kept == [el EXCEPT !.text = parts[1],
                                         !.runs = <<>>,
                                         !.confidence = Min(el.confidence, 75),
                                         !.classification_reason = SplitReason(@)]
                  IN  <<kept, [kept EXCEPT !.text = parts[2]]>>
                      \o split_compound_headings_HeadingRemainder(Tail(els))
             ELSE <<el>> \o split_compound_headings_HeadingRemainder(Tail(els))

\* The separator looked for in every block that has a text, paragraphs too.
RECURSIVE split_compound_headings_AnyBlock(_)
split_compound_headings_AnyBlock(els) ==
    IF els = <<>> THEN <<>>
    ELSE LET el == Head(els)
         IN  IF "text" \in DOMAIN el /\ HasCompoundSep(el.text)
             THEN LET parts == SplitFirst(el.text)
                  IN  <<[el EXCEPT !.text = parts[1], !.runs = <<>>],
                        ParagraphBlock(parts[2], el.page, <<>>)>>
                      \o split_compound_headings_AnyBlock(Tail(els))
             ELSE <<el>> \o split_compound_headings_AnyBlock(Tail(els))

RECURSIVE split_compound_headings(_)
split_compound_headings(els) ==
    IF els = <<>> THEN <<>>
    ELSE LET el == Head(els)
         IN  IF el.type = "heading" /\ HasCompoundSep(el.text)
             THEN LET parts == SplitFirst(el.text)
                  IN  <<[el EXCEPT !.text = parts[1],
                                   !.runs = <<>>,
                                   !.confidence = Min(el.confidence, 75),
                                   !.classification_reason = SplitReason(@)],
                        ParagraphBlock(parts[2], el.page, <<>>)>>
                      \o split_compound_headings(Tail(els))
             ELSE <<el>> \o split_compound_headings(Tail(els))

(***************************************************************************)
(* Promotion of numbered paragraphs and list items.                        *)
(***************************************************************************)
\* Ends of group 1 of  ^(\d+(?:\.\d+)+)\.?\s+\S  on the text t.
MultiLevelGroupEnds(t) ==
    {j \in NumSeqEnds(t, 1) :
        /\ PartsCount(t, 1, j) >= 2
        /\ \E j2 \in {j} \cup {d \in {j + 1} : j <= Len(t) /\ t[j] = "."} :
              \E j3 \in RunEnds(t, j2, Space) : j3 <= Len(t) /\ t[j3] \notin Space}

PromoteMaxChars == 120

\* The length limit applied to numberings of any depth.
Promote_LimitAllDepths(el, tag_multi, conf_multi, tag_two, conf_two) ==
    LET ends == MultiLevelGroupEnds(el.text)
        parts_count == PartsCount(el.text, 1, Greedy(ends))
    IN  IF ends = {} \/ Len(el.text) >= PromoteMaxChars THEN el
        ELSE IF parts_count >= 3
        THEN HeadingBlock(2, el.text, el.page, el.runs, conf_multi,
                          <<ReasonEntry(tag_multi, parts_count, 0)>>)
        ELSE HeadingBlock(2, el.text, el.page, el.runs, conf_two,
                          <<ReasonEntry(tag_two, Len(el.text), 0)>>)

\* The HeadingBlock a block of the promoted type becomes, or the block itself.
Promote(el, tag_multi, conf_multi, tag_two, conf_two) ==
    LET ends == MultiLevelGroupEnds(el.text)
        parts_count == PartsCount(el.text, 1, Greedy(ends))
    IN  IF ends = {} THEN el
        ELSE IF parts_count >= 3
        THEN HeadingBlock(2, el.text, el.page, el.runs, conf_multi,
                          <<ReasonEntry(tag_multi, parts_count, 0)>>)
        ELSE IF Len(el.text) < PromoteMaxChars
        THEN HeadingBlock(2, el.text, el.page, el.runs, conf_two,
                          <<ReasonEntry(tag_two, Len(el.text), 0)>>)
        ELSE el

promote_numbered_paragraphs(els) ==
    [i \in 1..Len(els) |->
        IF els[i].type = "paragraph"
        THEN Promote(els[i], "promoted:multi_level_parts", 90,
                     "promoted:two_level_chars", 70)
        ELSE els[i]]

promote_numbered_list_items(els) ==
    [i \in 1..Len(els) |->
        IF els[i].type = "pending_list_item"
        THEN Promote(els[i], "promoted_list_item:multi_level_parts", 85,
                     "promoted_list_item:two_level_chars", 65)
        ELSE els[i]]

(***************************************************************************)
(* List grouping: _detect_marker_format, _nest_list_items,                 *)
(* _group_list_items.                                                      *)
(***************************************************************************)
ListItem(txt, runs, kids) == [text |-> txt, runs |-> runs, children |-> kids]

ListBlock(style, its, page, marker_format) ==
    [type |-> "list", style |-> style, items |-> its, page |-> page,
     marker_format |-> marker_format]

\* None as a marker format.
NoMarkerFormat == "none"

RomanNumerals ==
    {<<"I">>, <<"I", "I">>, <<"I", "I", "I">>, <<"I", "V">>, <<"V">>,
     <<"V", "I">>, <<"V", "I", "I">>, <<"V", "I", "I", "I">>, <<"I", "X">>,
     <<"X">>}

\* ^(?:i{1,3}|iv|vi{0,3}|ix|x)[.)]  with re.IGNORECASE
LOWER_ROMAN_RE(m) ==
    \E r \in RomanNumerals :
        /\ Len(m) >= Len(r) + 1
        /\ \A i \in 1..Len(r) : ToUpper(m[i]) = r[i]
        /\ m[Len(r) + 1] \in {".", ")"}

\* ^[a-z][.)]
LOWER_LETTER_RE(m) == Len(m) >= 2 /\ m[1] \in Lower /\ m[2] \in {".", ")"}

\* ^[A-Z][.)]
UPPER_LETTER_RE(m) == Len(m) >= 2 /\ m[1] \in Upper /\ m[2] \in {".", ")"}

\* for item in items[k:]: every item inspected, not the first three only.
RECURSIVE DetectLoop_AllItems(_, _)
DetectLoop_AllItems(its, k) ==
    IF k > Len(its) THEN NoMarkerFormat
    ELSE LET m == Strip(its[k].marker)
         IN  IF m = <<>> THEN DetectLoop_AllItems(its, k + 1)
             ELSE IF LOWER_ROMAN_RE(m) /\ m[1] \in Lower THEN "lowerRoman"
             ELSE IF LOWER_LETTER_RE(m) THEN "lowerLetter"
             ELSE IF LOWER_ROMAN_RE(m) /\ m[1] \in Upper THEN "upperRoman"
             ELSE IF UPPER_LETTER_RE(m) THEN "upperLetter"
             ELSE NoMarkerFormat

\* for item in items[k:3]
RECURSIVE DetectLoop(_, _)
DetectLoop(its, k) ==
    IF k > Min(Len(its), 3) THEN NoMarkerFormat
    ELSE LET m == Strip(its[k].marker)
         IN  IF m = <<>> THEN DetectLoop(its, k + 1)
             ELSE IF LOWER_ROMAN_RE(m) /\ m[1] \in Lower THEN "lowerRoman"
             ELSE IF LOWER_LETTER_RE(m) THEN "lowerLetter"
             ELSE IF LOWER_ROMAN_RE(m) /\ m[1] \in Upper THEN "upperRoman"
             ELSE IF UPPER_LETTER_RE(m) THEN "upperLetter"
             ELSE NoMarkerFormat

detect_marker_format(its) == DetectLoop(its, 1)

\* The stack popped while its top is at the same depth or deeper, and deeper
\* only.
RECURSIVE PopItems_KeepEqual(_, _)
PopItems_KeepEqual(stk, depth) ==
    IF stk # <<>> /\ stk[Len(stk)][1] > depth
    THEN PopItems_KeepEqual(SubSeq(stk, 1, Len(stk) - 1), depth)
    ELSE stk

\* while stack and stack[-1][0] >= depth: stack.pop()
RECURSIVE PopItems(_, _)
PopItems(stk, depth) ==
    IF stk # <<>> /\ stk[Len(stk)][1] >= depth
    THEN PopItems(SubSeq(stk, 1, Len(stk) - 1), depth)
    ELSE stk

\* for p in pending[k:]: the stack of (depth, index of the item) and, for
\* every item, the index of the item whose children it was appended to
\* (0 for root_items).
RECURSIVE NestLoop(_, _, _, _)
NestLoop(pending, k, stk, parent) ==
    IF k > Len(pending) THEN parent
    ELSE LET depth == pending[k].nesting_depth - pending[1].nesting_depth
             popped == PopItems(stk, depth)
             target == IF popped # <<>> THEN popped[Len(popped)][2] ELSE 0
         IN  NestLoop(pending, k + 1, Append1(popped, <<depth, k>>),
                      [parent EXCEPT ![k] = target])

\* The items appended, in order, to the children of item i (to root_items
\* for i = 0), each with the children appended to it.
RECURSIVE NestedItems(_, _, _)
NestedItems(pending, parent, i) ==
    LET kids == {k \in 1..Len(pending) : parent[k] = i}
        Nth[n \in 1..Cardinality(kids)] ==
            CHOOSE k \in kids : Cardinality({j \in kids : j <= k}) = n
    IN  [n \in 1..Cardinality(kids) |->
            ListItem(pending[Nth[n]].text, pending[Nth[n]].runs,
                     NestedItems(pending, parent, Nth[n]))]

nest_list_items(pending) ==
    IF pending = <<>> THEN <<>>
    ELSE NestedItems(pending,
                     NestLoop(pending, 1, <<>>, [k \in 1..Len(pending) |-> 0]), 0)

\* The buffer kept as it is by a flush.
PendingAfterFlush_Kept(pending) == pending

\* pending.clear()
PendingAfterFlush(pending) == <<>>

\* The list is ordered as soon as any of its items is enumerated.
Ordered_AnyItem(pending) == \E k \in 1..Len(pending) : pending[k].enumerated

\* ordered = pending[0].enumerated
Ordered(pending) == pending[1].enumerated

\* flush_pending(): result after the call.
FlushPending(result, pending) ==
    IF pending = <<>> THEN result
    ELSE LET ordered == Ordered(pending)
         IN  Append1(result,
                     ListBlock(IF ordered THEN "ordered" ELSE "unordered",
                               nest_list_items(pending), pending[1].page,
                               IF ordered THEN detect_marker_format(pending)
                                          ELSE NoMarkerFormat))

\* for el in elements[k:], then the final flush_pending().
RECURSIVE GroupLoop(_, _, _, _)
GroupLoop(els, k, result, pending) ==
    IF k > Len(els) THEN FlushPending(result, pending)
    ELSE IF els[k].type = "pending_list_item"
    THEN GroupLoop(els, k + 1, result, Append1(pending, els[k]))
    ELSE GroupLoop(els, k + 1, Append1(FlushPending(result, pending), els[k]),
                   PendingAfterFlush(pending))

group_list_items(els) == GroupLoop(els, 1, <<>>, <<>>)

(***************************************************************************)
(* DoclingParser._extract_elements and DoclingParser._build_ir, up to the  *)
(* level resolution.  An item of the document is its label, its text as    *)
(* _get_text returns it, and its page.                                     *)
(***************************************************************************)
HeadingLabels == {"section_header", "title"}

\* f"docling_label:{label.value}"
LabelTag(label) ==
    IF label = "title" THEN "docling_label:title" ELSE "docling_label:section_header"

\* The element appended for one item; <<>> for an item that appends none.
ExtractOne(item) ==
    IF item.label \in {"page_header", "page_footer"} /\ Strip(item.text) # <<>>
    THEN <<>>
    ELSE IF item.label \in HeadingLabels
    THEN <<HeadingBlock(2, item.text, item.page, <<>>, 85,
                        <<ReasonEntry(LabelTag(item.label), 0, 0)>>)>>
    ELSE IF item.label = "list_item"
    THEN <<PendingListItem(item.text, <<>>, item.page, item.enumerated, item.marker,
                           item.nesting_depth)>>
    ELSE IF item.label = "table"
    THEN <<TableBlock(item.page)>>
    ELSE IF item.label = "picture"
    THEN <<FigureBlock(item.page)>>
    ELSE IF Strip(item.text) # <<>>
    THEN <<ParagraphBlock(item.text, item.page, <<>>)>>
    ELSE <<>>

ExtractElements(its) == Flatten([i \in 1..Len(its) |-> ExtractOne(its[i])])

\* has_parts set by any item, whatever its label.
ExtractHasParts_AnyLabel(its) ==
    \E i \in 1..Len(its) :
        /\ ~(its[i].label \in {"page_header", "page_footer"} /\ Strip(its[i].text) # <<>>)
        /\ is_structural_marker(its[i].text)

\* has_parts: set where a SECTION_HEADER or TITLE item is appended.
ExtractHasParts(its) ==
    \E i \in 1..Len(its) :
        its[i].label \in HeadingLabels /\ is_structural_marker(its[i].text)

ItemTexts == {TEXT_PART_I, TEXT_TECHNICAL_SUPPORT, TEXT_SCOPE, TEXT_RFIS, TEXT_COMPOUND}

\* An item with the nesting depth doc.iterate_items() yields with it.
Items ==
    [label : {"section_header", "title", "list_item", "text"}, text : ItemTexts,
     page : {1}, enumerated : {FALSE}, marker : {<<>>}, nesting_depth : {0}]
        \cup [label : {"table", "picture", "page_header"}, text : {TEXT_RFIS},
              page : {1}, enumerated : {FALSE}, marker : {<<>>}, nesting_depth : {0}]
        \cup [label : {"list_item"}, text : {TEXT_RFIS}, page : {1},
              enumerated : {TRUE}, marker : {<<"a", ".">>}, nesting_depth : {1}]

BuildIrInit ==
    /\ pc = "build_ir"
    /\ IdleJson
    /\ IdleDetect
    /\ IdlePipeline
    /\ items \in UNION {[1..n -> Items] : n \in 0..MaxItems}
    /\ elements = <<>>
    /\ has_parts = FALSE
    /\ entry = <<>>
    /\ IdleClassifier /\ IdleTree

\* elements, furniture, has_parts = self._extract_elements(doc, pdf_path)
BuildIrExtract ==
    /\ pc = "build_ir"
    /\ pc' = "extracted"
    /\ elements' = ExtractElements(items)
    /\ has_parts' = ExtractHasParts(items)
    /\ UNCHANGED <<text, out, flat_elements, pos, stack, children, entry, items, given, json, restored, format_returned>>

\* elements = _split_compound_headings(elements)
BuildIrSplit ==
    /\ pc = "extracted"
    /\ pc' = "split"
    /\ elements' = split_compound_headings(elements)
    /\ UNCHANGED <<text, out, flat_elements, pos, stack, children, has_parts, entry, items, given, json, restored, format_returned>>

\* elements = _promote_numbered_paragraphs(elements)
BuildIrPromoteParagraphs ==
    /\ pc = "split"
    /\ pc' = "paragraphs_promoted"
    /\ elements' = promote_numbered_paragraphs(elements)
    /\ UNCHANGED <<text, out, flat_elements, pos, stack, children, has_parts, entry, items, given, json, restored, format_returned>>

\* elements = _promote_numbered_list_items(elements)
BuildIrPromoteListItems ==
    /\ pc = "paragraphs_promoted"
    /\ pc' = "list_items_promoted"
    /\ elements' = promote_numbered_list_items(elements)
    /\ UNCHANGED <<text, out, flat_elements, pos, stack, children, has_parts, entry, items, given, json, restored, format_returned>>

\* _resolve_heading_levels(elements, has_parts)
BuildIrResolve ==
    /\ pc = "list_items_promoted"
    /\ pc' = "levels_resolved"
    /\ entry' = elements
    /\ elements' = resolve_heading_levels(elements, has_parts)
    /\ UNCHANGED <<text, out, flat_elements, pos, stack, children, has_parts, items, given, json, restored, format_returned>>

BuildIrNext ==
    \/ BuildIrExtract
    \/ BuildIrSplit
    \/ BuildIrPromoteParagraphs
    \/ BuildIrPromoteListItems
    \/ BuildIrResolve

SpecBuildIr == BuildIrInit /\ [][BuildIrNext]_vars

(***************************************************************************)
(* Claims about the level offset (checked under SpecBuildIr).              *)
(***************************************************************************)
\* The headings the resolver resolved by their numbering carry this offset
\* in their level and in their reason.
OffsetApplied(k) ==
    \A i \in HeadingIndices(elements) :
        LastReasonTag(elements[i]) = "level:numbering"
            => LET last == elements[i].classification_reason[
                               Len(elements[i].classification_reason)]
               IN  /\ last[3] = k
                   /\ elements[i].level = Min(last[2] + k, 9)

\* C8 as stated: the offset is 1 if any element of the sequence satisfies
\* is_structural_marker, and 0 otherwise.
C8_Original ==
    pc = "levels_resolved"
        => OffsetApplied(IF \E i \in 1..Len(entry) :
                                /\ "text" \in DOMAIN entry[i]
                                /\ is_structural_marker(entry[i].text)
                         THEN 1 ELSE 0)

\* C8 amended: the offset is 1 if any item that the extraction labelled a
\* section header or a title satisfies is_structural_marker, and 0 otherwise;
\* a paragraph or list item that satisfies it does not set the offset.
C8_OffsetFromHeadingMarkers ==
    pc = "levels_resolved"
        => OffsetApplied(IF \E i \in 1..Len(items) :
                                /\ items[i].label \in {"section_header", "title"}
                                /\ is_structural_marker(items[i].text)
                         THEN 1 ELSE 0)

\* A PART heading gave a numbered heading offset 1: "2. ..." is at level 2.
C8_Witness ==
    /\ pc = "levels_resolved"
    /\ has_parts
    /\ \E i \in HeadingIndices(elements) :
          /\ elements[i].text = TEXT_TECHNICAL_SUPPORT
          /\ elements[i].level = 2
          /\ LastReasonTag(elements[i]) = "level:numbering"

(***************************************************************************)
(* Direct calls of _split_compound_headings, as the unit tests make them:  *)
(* one element of any short text, or a short sequence of sample elements.  *)
(***************************************************************************)
SplitAlphabet == {"A", " ", MIDDLE_DOT, BULLET}

SplitTexts == UNION {[1..n -> SplitAlphabet] : n \in 0..MaxSplitLen}

TEXT_TWO_SEPARATORS ==
    <<"A", " ", MIDDLE_DOT, " ", "A", " ", BULLET, " ", "A">>

SplitHeadings ==
    {HeadingBlock(2, t, p, r, c, reason) :
        t \in SplitTexts, p \in {1, 2}, r \in {<<>>, <<TextRun(<<"A">>, TRUE)>>},
        c \in {60, 85, 100}, reason \in {<<>>, LabelReason}}

SplitSamples ==
    {HeadingBlock(2, TEXT_TWO_SEPARATORS, 2, <<TextRun(<<"A">>, TRUE)>>, 100, <<>>),
     HeadingBlock(3, TEXT_RFIS, 1, <<>>, 60, LabelReason),
     ParagraphBlock(TEXT_TWO_SEPARATORS, 1, <<>>),
     TableBlock(1)}

SplitInputs ==
    {<<h>> : h \in SplitHeadings}
        \cup UNION {[1..n -> SplitSamples] : n \in 0..MaxSplitElems}

SplitInit ==
    /\ pc = "split_compound_headings"
    /\ IdleJson
    /\ IdleDetect
    /\ IdlePipeline
    /\ elements \in SplitInputs
    /\ has_parts = FALSE
    /\ entry = <<>>
    /\ IdleClassifier /\ IdleTree /\ IdleExtract

\* result = _split_compound_headings(elements)
SplitCompoundHeadings ==
    /\ pc = "split_compound_headings"
    /\ pc' = "split_returned"
    /\ entry' = elements
    /\ elements' = split_compound_headings(elements)
    /\ UNCHANGED <<text, out, flat_elements, pos, stack, children, has_parts, items, given, json, restored, format_returned>>

\* The same call again, on the list the first call returned.
SplitAgain ==
    /\ pc = "split_returned"
    /\ pc' = "split_twice"
    /\ entry' = elements
    /\ elements' = split_compound_headings(elements)
    /\ UNCHANGED <<text, out, flat_elements, pos, stack, children, has_parts, items, given, json, restored, format_returned>>

SplitNext == SplitCompoundHeadings \/ SplitAgain

SpecSplit == SplitInit /\ [][SplitNext]_vars

(***************************************************************************)
(* Claims about the compound splitter (checked under SpecSplit).           *)
(***************************************************************************)
\* Positions of a middle dot or bullet with whitespace on both sides.
SeparatorGlyphs(t) ==
    {g \in 2..(Len(t) - 1) :
        t[g] \in {MIDDLE_DOT, BULLET} /\ t[g - 1] \in Space /\ t[g + 1] \in Space}

FirstGlyph(t) ==
    CHOOSE g \in SeparatorGlyphs(t) : \A k \in SeparatorGlyphs(t) : g <= k

IsCompound(el) == el.type = "heading" /\ SeparatorGlyphs(el.text) # {}

\* Index in the output of the element that input element i becomes.
SplitIndex(els, i) == i + Cardinality({k \in 1..(i - 1) : IsCompound(els[k])})

\* C12: a heading whose text holds a middle dot or bullet between whitespace
\* is split at the first such glyph only: it keeps the text before the glyph
\* (trimmed), its level and its page, its runs are emptied, its confidence is
\* min(old, 0.75), and one paragraph with the text after the first glyph
\* (trimmed, later separators included), the same page and no runs follows
\* it immediately; every other element stays as it is, in order.
C12_SplitAtFirst ==
    pc = "split_returned"
        => /\ Len(elements)
                = Len(entry) + Cardinality({k \in 1..Len(entry) : IsCompound(entry[k])})
           /\ \A i \in 1..Len(entry) :
                LET old == entry[i]
                    o == SplitIndex(entry, i)
                    new == elements[o]
                IN  IF IsCompound(old)
                    THEN LET g == FirstGlyph(old.text)
                         IN  /\ new.type = "heading"
                             /\ new.text = Strip(SubSeq(old.text, 1, g - 1))
                             /\ new.runs = <<>>
                             /\ new.confidence = Min(old.confidence, 75)
                             /\ new.level = old.level
                             /\ new.page = old.page
                             /\ elements[o + 1]
                                    = ParagraphBlock(
                                          Strip(SubSeq(old.text, g + 1, Len(old.text))),
                                          old.page, <<>>)
                    ELSE new = old

\* A heading of confidence 1.0 with two separators was split: confidence
\* 0.75, and the paragraph after it holds the second separator.
C12_Witness ==
    /\ pc = "split_returned"
    /\ Len(entry) >= 2
    /\ entry[2].type = "heading" /\ entry[2].text = TEXT_TWO_SEPARATORS
    /\ entry[2].confidence = 100
    /\ LET o == SplitIndex(entry, 2)
       IN  /\ elements[o].text = <<"A">>
           /\ elements[o].confidence = 75
           /\ elements[o + 1].type = "paragraph"
           /\ elements[o + 1].text = <<"A", " ", BULLET, " ", "A">>
           /\ elements[o + 1].page = 2

(***************************************************************************)
(* Direct calls of _promote_numbered_paragraphs and                        *)
(* _promote_numbered_list_items, as the unit tests make them, on texts of  *)
(* a few characters and of PromoteMaxChars - 1, PromoteMaxChars and        *)
(* PromoteMaxChars + 1 characters.                                         *)
(***************************************************************************)
\* s followed by as many "x" as make n characters (s itself when it is longer).
RECURSIVE PadTo(_, _)
PadTo(s, n) == IF Len(s) >= n THEN s ELSE PadTo(s \o <<"x">>, n)

PromotePrefixes ==
    {<<>>, <<"1">>, <<"1", ".", "2">>, <<"1", "2", ".", "3", "4">>,
     <<"1", ".", "2", ".", "3">>, <<"1", ".", "3", ".", "1", ".", "2">>,
     <<"A", ".", "1", ".", "2">>, <<" ", "1", ".", "2">>}

PromoteSeps ==
    {<<>>, <<" ">>, <<".">>, <<".", " ">>, <<"\t", " ">>, <<".", ".", " ">>,
     <<".", "5", " ">>}

PromoteLengths == {0, 9, PromoteMaxChars - 1, PromoteMaxChars, PromoteMaxChars + 1}

PromoteTexts ==
    {PadTo(p \o sp, n) : p \in PromotePrefixes, sp \in PromoteSeps, n \in PromoteLengths}

TEXT_TWO_LEVEL_AT_LIMIT == PadTo(<<"1", ".", "2", " ">>, PromoteMaxChars)

TEXT_TWO_LEVEL_UNDER_LIMIT == PadTo(<<"1", ".", "2", " ">>, PromoteMaxChars - 1)

TEXT_THREE_LEVEL_OVER_LIMIT ==
    PadTo(<<"1", ".", "3", ".", "1", " ">>, PromoteMaxChars + 1)

PromoteRuns == <<TextRun(<<"x">>, FALSE)>>

PromoteSamples ==
    {ParagraphBlock(TEXT_TWO_LEVEL_AT_LIMIT, 1, <<>>),
     ParagraphBlock(TEXT_THREE_LEVEL_OVER_LIMIT, 2, PromoteRuns),
     PendingListItem(TEXT_TWO_LEVEL_AT_LIMIT, <<>>, 1, FALSE, <<>>, 0),
     PendingListItem(TEXT_TWO_LEVEL_UNDER_LIMIT, PromoteRuns, 2, TRUE, <<"1", ".">>, 1),
     HeadingBlock(2, TEXT_TWO_LEVEL_UNDER_LIMIT, 1, <<>>, 85, LabelReason),
     TableBlock(1)}

PromoteInputs ==
    {<<ParagraphBlock(t, 1, <<>>)>> : t \in PromoteTexts}
        \cup {<<PendingListItem(t, <<>>, 1, FALSE, <<>>, 0)>> : t \in PromoteTexts}
        \cup UNION {[1..n -> PromoteSamples] : n \in 0..MaxPromoteElems}

PromoteInit ==
    /\ pc = "promote"
    /\ IdleJson
    /\ IdleDetect
    /\ IdlePipeline
    /\ elements \in PromoteInputs
    /\ has_parts = FALSE
    /\ entry = <<>>
    /\ IdleClassifier /\ IdleTree /\ IdleExtract

\* result = _promote_numbered_paragraphs(elements)
PromoteNumberedParagraphs ==
    /\ pc = "promote"
    /\ pc' = "promote_numbered_paragraphs_returned"
    /\ entry' = elements
    /\ elements' = promote_numbered_paragraphs(elements)
    /\ UNCHANGED <<text, out, flat_elements, pos, stack, children, has_parts, items, given, json, restored, format_returned>>

\* result = _promote_numbered_list_items(elements)
PromoteNumberedListItems ==
    /\ pc = "promote"
    /\ pc' = "promote_numbered_list_items_returned"
    /\ entry' = elements
    /\ elements' = promote_numbered_list_items(elements)
    /\ UNCHANGED <<text, out, flat_elements, pos, stack, children, has_parts, items, given, json, restored, format_returned>>

PromoteNext == PromoteNumberedParagraphs \/ PromoteNumberedListItems

SpecPromote == PromoteInit /\ [][PromoteNext]_vars

(***************************************************************************)
(* Claims about the promoters (checked under SpecPromote).                 *)
(***************************************************************************)
\* Segment counts k >= 2 such that t is a numbering of k segments, then an
\* optional dot, whitespace and a non-space character.
MultiLevelSegments(t) ==
    {Segments(SubSeq(t, 1, j)) : j \in {j \in 1..Len(t) :
        /\ IsNumbering(SubSeq(t, 1, j))
        /\ Segments(SubSeq(t, 1, j)) >= 2
        /\ IsSeparatorAndText(SubSeq(t, j + 1, Len(t)))}}

\* The condition under which a block of the promoter's type is promoted.
IsPromotable(t) ==
    \E k \in MultiLevelSegments(t) : k >= 3 \/ (k = 2 /\ Len(t) < 120)

\* The promoter that turned entry into elements promotes blocks of type ty.
PromotedExactly(ty) ==
    /\ Len(elements) = Len(entry)
    /\ \A i \in 1..Len(entry) :
          IF entry[i].type = ty /\ IsPromotable(entry[i].text)
          THEN /\ elements[i].type = "heading"
               /\ elements[i].text = entry[i].text
               /\ elements[i].page = entry[i].page
               /\ elements[i].runs = entry[i].runs
          ELSE elements[i] = entry[i]

\* C13: a promoter turns a block of its type into a heading candidate, at
\* the same position and with the same text, iff the text starts with two or
\* more dot-separated numeric segments, an optional dot, whitespace and a
\* non-space character, and has 3 or more segments or has 2 and is shorter
\* than 120 characters; every other block is left unchanged.
C13_Promotion ==
    /\ pc = "promote_numbered_paragraphs_returned" => PromotedExactly("paragraph")
    /\ pc = "promote_numbered_list_items_returned" => PromotedExactly("pending_list_item")

\* The paragraph promoter left a 2-segment paragraph of exactly 120
\* characters and a list item as they were and promoted a 3-segment
\* paragraph of 121 characters.
C13_Witness ==
    /\ pc = "promote_numbered_paragraphs_returned"
    /\ Len(entry) = 2
    /\ entry[1] = ParagraphBlock(TEXT_TWO_LEVEL_AT_LIMIT, 1, <<>>)
    /\ Len(entry[1].text) = 120
    /\ elements[1] = entry[1]
    /\ entry[2] = ParagraphBlock(TEXT_THREE_LEVEL_OVER_LIMIT, 2, PromoteRuns)
    /\ elements[2].type = "heading"

(***************************************************************************)
(* Direct calls of _group_list_items, as the unit tests make them.  The    *)
(* element at position i of an input carries the text ELEMENT_TEXTS[i].    *)
(***************************************************************************)
TEXT_PARENT == <<"P", "a", "r", "e", "n", "t">>

TEXT_CHILD == <<"C", "h", "i", "l", "d">>

TEXT_SIBLING == <<"S", "i", "b", "l", "i", "n", "g">>

ELEMENT_TEXTS ==
    <<TEXT_PARENT, TEXT_CHILD, TEXT_SIBLING, <<"4">>, <<"5">>, <<"6">>, <<"7">>>>

GroupKinds ==
    [type : {"paragraph", "heading"}, enumerated : {FALSE}, marker : {<<>>},
     nesting_depth : {0}]
        \cup [type : {"pending_list_item"}, enumerated : {FALSE}, marker : {<<>>},
              nesting_depth : 0..2]
        \cup [type : {"pending_list_item"}, enumerated : {TRUE},
              marker : {<<>>, <<"a", ".">>, <<"i", "i", ")">>, <<"I", ".">>},
              nesting_depth : {0}]
        \cup [type : {"pending_list_item"}, enumerated : {TRUE},
              marker : {<<"1", ".">>}, nesting_depth : {1}]

GroupElement(kind, i) ==
    IF kind.type = "paragraph" THEN ParagraphBlock(ELEMENT_TEXTS[i], i, <<>>)
    ELSE IF kind.type = "heading"
    THEN HeadingBlock(1, ELEMENT_TEXTS[i], i, <<>>, 85, LabelReason)
    ELSE PendingListItem(ELEMENT_TEXTS[i], <<TextRun(ELEMENT_TEXTS[i], FALSE)>>, i,
                         kind.enumerated, kind.marker, kind.nesting_depth)

\* The lists of n elements.
GroupInputs(n) ==
    {[i \in 1..n |-> GroupElement(kinds[i], i)] : kinds \in [1..n -> GroupKinds]}

GroupInit ==
    /\ pc = "group_list_items"
    /\ IdleJson
    /\ IdleDetect
    /\ IdlePipeline
    /\ \E n \in 0..MaxGroupElems : elements \in GroupInputs(n)
    /\ has_parts = FALSE
    /\ entry = <<>>
    /\ IdleClassifier /\ IdleTree /\ IdleExtract

\* result = _group_list_items(elements)
GroupListItems ==
    /\ pc = "group_list_items"
    /\ pc' = "group_list_items_returned"
    /\ entry' = elements
    /\ elements' = group_list_items(elements)
    /\ UNCHANGED <<text, out, flat_elements, pos, stack, children, has_parts, items, given, json, restored, format_returned>>

GroupNext == GroupListItems

SpecGroup == GroupInit /\ [][GroupNext]_vars

(***************************************************************************)
(* Claims about the list grouper (checked under SpecGroup).                *)
(***************************************************************************)
IsPending(el) == el.type = "pending_list_item"

\* Input positions where a maximal run of pending list items starts.
RunStarts(els) ==
    {i \in 1..Len(els) : IsPending(els[i]) /\ (i = 1 \/ ~IsPending(els[i - 1]))}

\* The start of the run the pending list item at i belongs to.
RunStartOf(els, i) == Latest({a \in RunStarts(els) : a <= i})

\* The last position of the run that starts at a.
RunEndOf(els, a) ==
    Latest({b \in a..Len(els) : \A k \in a..b : IsPending(els[k])})

\* The output position of input element i: one position per element that is
\* no list item and one per run.
GroupIndex(els, i) ==
    Cardinality({k \in 1..i : ~IsPending(els[k])})
        + Cardinality({a \in RunStarts(els) : a <= i})

\* Texts of the items of a list, depth first, an item before its children.
RECURSIVE ItemTextsOf(_)
ItemTextsOf(its) ==
    Flatten([k \in 1..Len(its) |->
                <<its[k].text>> \o ItemTextsOf(its[k].children)])

\* C14: the output has one element per non-list element and one ListBlock
\* per maximal run of pending list items, in the input order; a non-list
\* element is kept as it is; the ListBlock of a run holds exactly the items
\* of that run; no pending list item remains; two list items separated by a
\* non-list element are in different ListBlocks.
C14_RunsGrouped ==
    pc = "group_list_items_returned"
        => /\ Len(elements) = GroupIndex(entry, Len(entry))
           /\ \A o \in 1..Len(elements) : ~IsPending(elements[o])
           /\ \A i \in 1..Len(entry) :
                LET new == elements[GroupIndex(entry, i)]
                IN  IF IsPending(entry[i])
                    THEN LET a == RunStartOf(entry, i)
                             b == RunEndOf(entry, a)
                         IN  /\ new.type = "list"
                             /\ ItemTextsOf(new.items)
                                    = [k \in 1..(b - a + 1) |-> entry[a + k - 1].text]
                    ELSE new = entry[i]
           /\ \A i \in 1..Len(entry) : \A j \in 1..Len(entry) :
                (/\ i < j /\ IsPending(entry[i]) /\ IsPending(entry[j])
                 /\ \E k \in (i + 1)..(j - 1) : ~IsPending(entry[k]))
                    => GroupIndex(entry, i) # GroupIndex(entry, j)

\* A list item, a paragraph and a list item became a list, the paragraph
\* and a second list.
C14_Witness ==
    /\ pc = "group_list_items_returned"
    /\ Len(entry) = 3
    /\ IsPending(entry[1]) /\ entry[2].type = "paragraph" /\ IsPending(entry[3])
    /\ Len(elements) = 3
    /\ elements[1].type = "list" /\ elements[2] = entry[2] /\ elements[3].type = "list"
    /\ ItemTextsOf(elements[3].items) = <<entry[3].text>>

\* Pairs <<text of the parent, text of the item>> of a list whose root items
\* have the parent text given.
RECURSIVE ParentPairs(_, _)
ParentPairs(its, parentText) ==
    UNION {{<<parentText, its[k].text>>} \cup ParentPairs(its[k].children, its[k].text) :
              k \in 1..Len(its)}

\* The nearest item of the run before i whose depth, normalized by the depth
\* of the run's first item, is strictly smaller than that of i; 0 if none.
NearestShallower(els, a, i) ==
    Latest({j \in a..(i - 1) :
               els[j].nesting_depth - els[a].nesting_depth
                   < els[i].nesting_depth - els[a].nesting_depth})

\* C15: in the ListBlock of a run every item is a child of the nearest
\* preceding item of the run with a strictly smaller normalized depth, or a
\* root item when there is none; the items are in the order of the run;
\* depths [0, 1, 0] give the root items Parent (with the child Child) and
\* Sibling.
C15_Nesting ==
    pc = "group_list_items_returned"
        => /\ \A a \in RunStarts(entry) :
                LET b == RunEndOf(entry, a)
                    block == elements[GroupIndex(entry, a)]
                IN  /\ ParentPairs(block.items, <<>>)
                        = {<<IF NearestShallower(entry, a, i) = 0 THEN <<>>
                             ELSE entry[NearestShallower(entry, a, i)].text,
                             entry[i].text>> : i \in a..b}
                    /\ ItemTextsOf(block.items)
                        = [k \in 1..(b - a + 1) |-> entry[a + k - 1].text]
           /\ (/\ Len(entry) = 3
               /\ \A i \in 1..3 : IsPending(entry[i])
               /\ [i \in 1..3 |-> entry[i].nesting_depth] = <<0, 1, 0>>)
                 => LET its == elements[1].items
                    IN  /\ Len(its) = 2
                        /\ its[1].text = TEXT_PARENT
                        /\ Len(its[1].children) = 1
                        /\ its[1].children[1].text = TEXT_CHILD
                        /\ its[1].children[1].children = <<>>
                        /\ its[2].text = TEXT_SIBLING
                        /\ its[2].children = <<>>

\* Depths [1, 2, 0] were nested: the second item is a child of the first and
\* the third, of negative normalized depth, is a root item.
C15_Witness ==
    /\ pc = "group_list_items_returned"
    /\ Len(entry) = 3
    /\ \A i \in 1..3 : IsPending(entry[i])
    /\ [i \in 1..3 |-> entry[i].nesting_depth] = <<1, 2, 0>>
    /\ Len(elements[1].items) = 2
    /\ elements[1].items[1].children # <<>>
    /\ elements[1].items[2].text = TEXT_SIBLING

(***************************************************************************)
(* The classification pipeline of DoclingParser._build_ir on a given       *)
(* element list and has_parts flag: splitter, promoters, resolver, grouper *)
(* and tree builder.  Every IR block carries the id that _make_id drew for *)
(* it when it was constructed; a _PendingListItem has none.                *)
(***************************************************************************)
\* The values uuid.uuid4().hex[:12] may return for a block a stage constructs.
Ids == {"id_a", "id_b"}

GivenId == "id_given"

\* The id written into the text of the block as well.
WithId_InText(block, id) ==
    [id |-> id] @@ (IF "text" \in DOMAIN block
                    THEN [block EXCEPT !.text = Append1(@, id)]
                    ELSE block)

\* id: str = Field(default_factory=_make_id)
WithId(block, id) == [id |-> id] @@ block

\* Positions of the blocks a stage constructed: IR blocks without an id yet.
Constructed(els) ==
    {i \in 1..Len(els) : els[i].type # "pending_list_item" /\ "id" \notin DOMAIN els[i]}

WithIds(els, drawn) ==
    [i \in 1..Len(els) |-> IF i \in Constructed(els) THEN WithId(els[i], drawn[i]) ELSE els[i]]

\* for block in flat_elements[k:]: the stack and the children lists
\* (children[0] is root) after the loop.
RECURSIVE TreeLoop(_, _, _, _)
TreeLoop(flat, k, stk, ch) ==
    IF k > Len(flat) THEN [stack |-> stk, children |-> ch]
    ELSE IF IsHeading(flat[k])
    THEN LET popped == PopStack(stk, flat[k].level)
         IN  TreeLoop(flat, k + 1, Append1(popped, <<flat[k].level, k>>),
                      [ch EXCEPT ![HeadingTarget(popped)] = Append1(@, k)])
    ELSE TreeLoop(flat, k + 1, stk, [ch EXCEPT ![ContentTarget(stk)] = Append1(@, k)])

build_heading_tree(flat) ==
    TreeLoop(flat, 1, <<>>, [i \in 0..Len(flat) |-> <<>>])

(***************************************************************************)
(* DocumentIR.to_json and DocumentIR.from_json on the body of a document,  *)
(* following the field declarations of ir/schema.py.  A JSON text is kept  *)
(* as the tree of its values: a number by its literal, a string by its     *)
(* escaped characters.  A document body is a sequence of blocks, each      *)
(* HeadingBlock with its children and each ListBlock with its items.       *)
(***************************************************************************)
DigitChars == <<"0", "1", "2", "3", "4", "5", "6", "7", "8", "9">>

DigitValue(c) == (CHOOSE d \in 1..10 : DigitChars[d] = c) - 1

\* The JSON literal of an int.
RECURSIVE IntLiteral(_)
IntLiteral(n) ==
    IF n < 10 THEN <<DigitChars[n + 1]>>
    ELSE IntLiteral(n \div 10) \o <<DigitChars[(n % 10) + 1]>>

RECURSIVE ParseInt(_)
ParseInt(lit) ==
    IF Len(lit) = 1 THEN DigitValue(lit[1])
    ELSE 10 * ParseInt(SubSeq(lit, 1, Len(lit) - 1)) + DigitValue(lit[Len(lit)])

\* The JSON literal of a float given in hundredths: 0.85, 0.5, 1.0.
FloatLiteral(c) ==
    IntLiteral(c \div 100) \o <<".">>
        \o (IF c % 10 = 0 THEN <<DigitChars[((c % 100) \div 10) + 1]>>
            ELSE <<DigitChars[((c % 100) \div 10) + 1], DigitChars[(c % 10) + 1]>>)

\* The float, in hundredths, of a literal with one or two decimals.
ParseFloat(lit) ==
    LET dot == CHOOSE i \in 1..Len(lit) : lit[i] = "."
        frac == SubSeq(lit, dot + 1, Len(lit))
    IN  100 * ParseInt(SubSeq(lit, 1, dot - 1))
            + 10 * DigitValue(frac[1])
            + (IF Len(frac) = 2 THEN DigitValue(frac[2]) ELSE 0)

\* The characters of a JSON string: quote and backslash are escaped.
RECURSIVE Escape(_)
Escape(chars) ==
    IF chars = <<>> THEN <<>>
    ELSE (IF Head(chars) \in {"\"", "\\"} THEN <<"\\", Head(chars)>> ELSE <<Head(chars)>>)
             \o Escape(Tail(chars))

RECURSIVE Unescape(_)
Unescape(chars) ==
    IF chars = <<>> THEN <<>>
    ELSE IF Head(chars) = "\\" THEN <<chars[2]>> \o Unescape(SubSeq(chars, 3, Len(chars)))
    ELSE <<Head(chars)>> \o Unescape(Tail(chars))

JsonNull == [j |-> "null"]

JsonString(chars) == [j |-> "string", v |-> chars]

JsonNumber(lit) == [j |-> "number", v |-> lit]

JsonBool(b) == [j |-> "bool", v |-> b]

JsonArray(vals) == [j |-> "array", v |-> vals]

JsonObject(members) == [j |-> "object", v |-> members]

\* page: Optional[int]
DumpOptionalInt(n) == JsonNumber(IntLiteral(n))

\* runs: list[TextRun]
DumpRuns(runs) ==
    JsonArray([k \in 1..Len(runs) |->
        JsonObject([text |-> JsonString(Escape(runs[k].text)),
                    bold |-> JsonBool(runs[k].bold)])])

\* items / children: list[ListItem]
RECURSIVE DumpItems(_)
DumpItems(its) ==
    JsonArray([k \in 1..Len(its) |->
        JsonObject([text |-> JsonString(Escape(its[k].text)),
                    runs |-> DumpRuns(its[k].runs),
                    children |-> DumpItems(its[k].children)])])

\* classification_reason: Optional[str].  The string is kept as the sequence
\* of its entries.
DumpReason(reason) == IF reason = <<>> THEN JsonNull ELSE JsonString(reason)

\* marker_format: Optional[str]
DumpMarkerFormat(f) == IF f = NoMarkerFormat THEN JsonNull ELSE JsonString(f)

\* model_dump_json of a list of blocks: every declared field of every block.
RECURSIVE DumpBlocks(_)
DumpBlocks(blocks) ==
    JsonArray([k \in 1..Len(blocks) |->
        LET b == blocks[k]
            common == [type |-> JsonString(b.type), id |-> JsonString(b.id),
                       page |-> DumpOptionalInt(b.page)]
        IN  IF b.type = "heading"
            THEN JsonObject(common @@
                     [level |-> JsonNumber(IntLiteral(b.level)),
                      text |-> JsonString(Escape(b.text)),
                      runs |-> DumpRuns(b.runs),
                      children |-> DumpBlocks(b.children),
                      confidence |-> JsonNumber(FloatLiteral(b.confidence)),
                      classification_reason |-> DumpReason(b.classification_reason)])
            ELSE IF b.type = "paragraph"
            THEN JsonObject(common @@
                     [text |-> JsonString(Escape(b.text)), runs |-> DumpRuns(b.runs)])
            ELSE IF b.type = "list"
            THEN JsonObject(common @@
                     [style |-> JsonString(b.style),
                      marker_format |-> DumpMarkerFormat(b.marker_format),
                      items |-> DumpItems(b.items)])
            ELSE JsonObject(common)])

\* def to_json(self): return self.model_dump_json(indent=2)
to_json(body) == DumpBlocks(body)

\* What validation gives for a block it rejects.
ValidationError == [type |-> "validation_error"]

\* What validation gives for a list of blocks: the blocks, or the failure.
Validated(blocks) == [ok |-> TRUE, blocks |-> blocks]

Rejected == [ok |-> FALSE, blocks |-> <<>>]

\* IRBlock: the members of the union, by their type discriminator.
IRBlockTypes == {"heading", "paragraph", "list", "table", "figure", "page_break"}

\* The children of a heading declared as list[ContentBlock].
HeadingChildrenTypes_ContentOnly ==
    {"paragraph", "list", "table", "figure", "page_break"}

\* children: list[IRBlock]
HeadingChildrenTypes == IRBlockTypes

ParseRuns(arr) ==
    [k \in 1..Len(arr.v) |->
        TextRun(Unescape(arr.v[k].v.text.v), arr.v[k].v.bold.v)]

RECURSIVE ParseItems(_)
ParseItems(arr) ==
    [k \in 1..Len(arr.v) |->
        ListItem(Unescape(arr.v[k].v.text.v), ParseRuns(arr.v[k].v.runs),
                 ParseItems(arr.v[k].v.children))]

ParseReason(val) == IF val.j = "null" THEN <<>> ELSE val.v

ParseMarkerFormat(val) == IF val.j = "null" THEN NoMarkerFormat ELSE val.v

\* Validation of a list of blocks against a union of the given members; a
\* block that fails makes the whole document fail.
RECURSIVE ParseBlocks(_, _)
ParseBlocks(arr, types) ==
    LET One(val) ==
            LET o == val.v
                common == [type |-> o.type.v, id |-> o.id.v, page |-> ParseInt(o.page.v)]
            IN  IF o.type.v \notin types THEN ValidationError
                ELSE IF o.type.v = "heading"
                THEN LET level == ParseInt(o.level.v)
                         confidence == ParseFloat(o.confidence.v)
                         kids == ParseBlocks(o.children, HeadingChildrenTypes)
                     IN  IF \/ level \notin 1..9
                            \/ confidence \notin 0..100
                            \/ ~kids.ok
                         THEN ValidationError
                         ELSE common @@
                              [level |-> level, text |-> Unescape(o.text.v),
                               runs |-> ParseRuns(o.runs), children |-> kids.blocks,
                               confidence |-> confidence,
                               classification_reason |->
                                   ParseReason(o.classification_reason)]
                ELSE IF o.type.v = "paragraph"
                THEN common @@ [text |-> Unescape(o.text.v), runs |-> ParseRuns(o.runs)]
                ELSE IF o.type.v = "list"
                THEN IF o.style.v \notin {"ordered", "unordered"} THEN ValidationError
                     ELSE common @@
                          [style |-> o.style.v,
                           marker_format |-> ParseMarkerFormat(o.marker_format),
                           items |-> ParseItems(o.items)]
                ELSE common
        parsed == [k \in 1..Len(arr.v) |-> One(arr.v[k])]
    IN  IF \E k \in 1..Len(parsed) : parsed[k].type = ValidationError.type
        THEN Rejected
        ELSE Validated(parsed)

\* def from_json(cls, json_str): return cls.model_validate_json(json_str)
from_json(doc) == ParseBlocks(doc, IRBlockTypes)

\* The blocks of a children list of the tree, each heading with its children.
RECURSIVE BodyOf(_, _, _)
BodyOf(flat, ch, i) ==
    [k \in 1..Len(ch[i]) |->
        IF IsHeading(flat[ch[i][k]])
        THEN [children |-> BodyOf(flat, ch, ch[i][k])] @@ flat[ch[i][k]]
        ELSE flat[ch[i][k]]]

TEXT_QUOTED == <<"\"", "R", "F", "I", "\\", "s", "\"">>

GivenElements ==
    {HeadingBlock(2, TEXT_COMPOUND, 1, <<>>, 85, LabelReason),
     HeadingBlock(2, TEXT_RFIS, 1, <<>>, 85, LabelReason),
     HeadingBlock(2, TEXT_TECHNICAL_SUPPORT, 2, <<>>, 85, LabelReason),
     ParagraphBlock(TEXT_SCOPE, 1, <<>>),
     ParagraphBlock(TEXT_QUOTED, 2, <<TextRun(TEXT_QUOTED, TRUE)>>),
     PendingListItem(TEXT_NINE_SEGMENTS, <<>>, 1, FALSE, <<>>, 0),
     PendingListItem(TEXT_RFIS, <<>>, 1, FALSE, <<>>, 0),
     PendingListItem(TEXT_SUBMITTALS, <<>>, 2, TRUE, <<"a", ".">>, 1)}

GivenInputs ==
    {WithIds(els, [i \in 1..Len(els) |-> GivenId]) :
        els \in UNION {[1..n -> GivenElements] : n \in 0..MaxGiven}}

PipelineInit ==
    /\ pc = "pipeline"
    /\ IdleJson
    /\ IdleDetect
    /\ given \in GivenInputs
    /\ elements = given
    /\ has_parts \in BOOLEAN
    /\ entry = <<>>
    /\ IdleClassifier /\ IdleTree /\ IdleExtract

\* elements = _split_compound_headings(elements)
PipelineSplit ==
    /\ pc = "pipeline"
    /\ pc' = "split"
    /\ LET result == split_compound_headings(elements)
       IN  \E drawn \in [Constructed(result) -> Ids] : elements' = WithIds(result, drawn)
    /\ UNCHANGED <<text, out, flat_elements, pos, stack, children, has_parts, entry,
                   items, given, json, restored, format_returned>>

\* elements = _promote_numbered_paragraphs(elements)
PipelinePromoteParagraphs ==
    /\ pc = "split"
    /\ pc' = "paragraphs_promoted"
    /\ LET result == promote_numbered_paragraphs(elements)
       IN  \E drawn \in [Constructed(result) -> Ids] : elements' = WithIds(result, drawn)
    /\ UNCHANGED <<text, out, flat_elements, pos, stack, children, has_parts, entry,
                   items, given, json, restored, format_returned>>

\* elements = _promote_numbered_list_items(elements)
PipelinePromoteListItems ==
    /\ pc = "paragraphs_promoted"
    /\ pc' = "list_items_promoted"
    /\ LET result == promote_numbered_list_items(elements)
       IN  \E drawn \in [Constructed(result) -> Ids] : elements' = WithIds(result, drawn)
    /\ UNCHANGED <<text, out, flat_elements, pos, stack, children, has_parts, entry,
                   items, given, json, restored, format_returned>>

\* _resolve_heading_levels(elements, has_parts)
PipelineResolve ==
    /\ pc = "list_items_promoted"
    /\ pc' = "levels_resolved"
    /\ entry' = elements
    /\ elements' = resolve_heading_levels(elements, has_parts)
    /\ UNCHANGED <<text, out, flat_elements, pos, stack, children, has_parts, items, given, json, restored, format_returned>>

\* elements = _group_list_items(elements)
PipelineGroup ==
    /\ pc = "levels_resolved"
    /\ pc' = "grouped"
    /\ LET result == group_list_items(elements)
       IN  \E drawn \in [Constructed(result) -> Ids] : elements' = WithIds(result, drawn)
    /\ UNCHANGED <<text, out, flat_elements, pos, stack, children, has_parts, entry,
                   items, given, json, restored, format_returned>>

\* body = _build_heading_tree(elements)
PipelineBuildTree ==
    /\ pc = "grouped"
    /\ pc' = "tree_built"
    /\ flat_elements' = elements
    /\ pos' = Len(elements)
    /\ stack' = build_heading_tree(elements).stack
    /\ children' = build_heading_tree(elements).children
    /\ UNCHANGED <<text, out, elements, has_parts, entry, items, given, json, restored, format_returned>>

\* json_str = ir.to_json()
PipelineToJson ==
    /\ pc = "tree_built"
    /\ pc' = "to_json"
    /\ json' = to_json(BodyOf(flat_elements, children, 0))
    /\ UNCHANGED <<text, out, flat_elements, pos, stack, children, elements, has_parts,
                   entry, items, given, restored, format_returned>>

\* ir = DocumentIR.from_json(json_str)
PipelineFromJson ==
    /\ pc = "to_json"
    /\ pc' = "from_json"
    /\ restored' = from_json(json)
    /\ UNCHANGED <<text, out, flat_elements, pos, stack, children, elements, has_parts,
                   entry, items, given, json, format_returned>>

PipelineNext ==
    \/ PipelineSplit
    \/ PipelinePromoteParagraphs
    \/ PipelinePromoteListItems
    \/ PipelineResolve
    \/ PipelineGroup
    \/ PipelineBuildTree
    \/ PipelineToJson
    \/ PipelineFromJson

SpecPipeline == PipelineInit /\ [][PipelineNext]_vars

(***************************************************************************)
(* Claims about the pipeline (checked under SpecPipeline).                 *)
(***************************************************************************)
WithoutId(block) == [k \in DOMAIN block \ {"id"} |-> block[k]]

WithoutIds(els) == [i \in 1..Len(els) |-> WithoutId(els[i])]

\* What a heading candidate is made to carry: a confidence, a provenance and
\* a placeholder level, or what it carries already.
Disguises ==
    {[keep |-> TRUE, confidence |-> 0, reason |-> <<>>, level |-> 2],
     [keep |-> FALSE, confidence |-> 0, reason |-> <<>>, level |-> 9],
     [keep |-> FALSE, confidence |-> 100,
      reason |-> <<ReasonEntry("unknown", 0, 0)>>, level |-> 1]}

Disguised(els, d) ==
    [i \in 1..Len(els) |->
        IF els[i].type = "heading" /\ ~d[i].keep
        THEN [els[i] EXCEPT !.confidence = d[i].confidence,
                            !.classification_reason = d[i].reason,
                            !.level = d[i].level]
        ELSE els[i]]

TypesOf(els) == [i \in 1..Len(els) |-> els[i].type]

\* C16: the resolver input of the run and any sequence that differs from it
\* only in confidences, provenances or placeholder levels of headings give,
\* through resolver, grouper and tree builder, the same level to every
\* heading and the same tree.
C16_ConfidenceNeverDecides ==
    pc \in {"levels_resolved", "tree_built"}
        => \A d \in [1..Len(entry) -> Disguises] :
              LET resolved == resolve_heading_levels(Disguised(entry, d), has_parts)
                  grouped == group_list_items(resolved)
              IN  /\ pc = "levels_resolved" => LevelsOf(resolved) = LevelsOf(elements)
                  /\ pc = "tree_built"
                        => /\ LevelsOf(grouped) = LevelsOf(flat_elements)
                           /\ TypesOf(grouped) = TypesOf(flat_elements)
                           /\ build_heading_tree(grouped).children = children

\* A tree was built where a split heading holds the paragraph split off it
\* and the heading after it, of confidence 0.50, inherited its level.
C16_Witness ==
    /\ pc = "tree_built"
    /\ \E h \in 1..Len(flat_elements) : \E c \in 1..Len(flat_elements) :
          /\ IsHeading(flat_elements[h]) /\ IsHeading(flat_elements[c])
          /\ h < c
          /\ children[h] # <<>>
          /\ {h, c} \subseteq Elems(children[0])
          /\ LastReasonTag(flat_elements[c]) = "level:inherited"
          /\ flat_elements[c].confidence = 50

\* The pipeline as a function of the given list and the flag, stage by stage.
SplitOf(g) == split_compound_headings(g)

ParagraphsPromotedOf(g) == promote_numbered_paragraphs(SplitOf(g))

ListItemsPromotedOf(g) == promote_numbered_list_items(ParagraphsPromotedOf(g))

ResolvedOf(g, parts) == resolve_heading_levels(ListItemsPromotedOf(g), parts)

GroupedOf(g, parts) == group_list_items(ResolvedOf(g, parts))

ConfidencesOf(els) == [i \in 1..Len(els) |-> els[i].confidence]

\* The confidence the rule that fires for heading i of the list gives it.
RuleConfidence(before, i) ==
    LET t == before[i].text
        c == before[i].confidence
        earlier == {j \in HeadingIndices(before) : j < i}
    IN  IF is_level1_structural(t) THEN (IF c >= 95 THEN c ELSE 95)
        ELSE IF level_from_numbering(t) # NoLevel THEN c
        ELSE IF earlier = {} THEN (IF c <= 80 THEN c ELSE 80)
        ELSE (IF c <= 50 THEN c ELSE 50)

\* C19: a run of the resolver leaves every heading with max(c, 0.95) if the
\* structural rule fired, c if the numbering rule, min(c, 0.80) if the title
\* rule and min(c, 0.50) if it inherited, c being its confidence on entry;
\* a confidence in [0,1] stays in [0,1].
C19_ConfidenceByRule ==
    pc \in {"resolved", "resolved_twice"}
        => \A i \in HeadingIndices(entry) :
              /\ elements[i].confidence = RuleConfidence(entry, i)
              /\ entry[i].confidence \in 0..100 => elements[i].confidence \in 0..100

\* A title of confidence 1.0, a structural marker of 0.30, a numbered
\* heading of 0.60 and an inheriting heading of 1.0 were resolved to
\* 0.80, 0.95, 0.60 and 0.50.
C19_Witness ==
    /\ pc = "resolved"
    /\ entry = ConfidenceExample(<<100, 30, 60, 100>>)
    /\ ConfidencesOf(elements) = <<80, 95, 60, 50>>
    /\ LastReasonTag(elements[4]) = "level:inherited"

(***************************************************************************)
(* Claims about the provenance across the stages (checked under            *)
(* SpecPipeline).  A provenance string is the sequence of its entries, the *)
(* entries being what "; " separates.                                      *)
(***************************************************************************)
HeadingsOf(els) == SelectSeq(els, IsHeading)

TagsOf(reason) == [k \in 1..Len(reason) |-> reason[k][1]]

LevelTags ==
    {"level:structural_marker", "level:numbering", "level:first_heading_as_title",
     "level:inherited"}

\* The reason is the previous one followed by one entry with a tag of tags.
Appended(previous, reason, tags) ==
    /\ Len(reason) = Len(previous) + 1
    /\ SubSeq(reason, 1, Len(previous)) = previous
    /\ reason[Len(reason)][1] \in tags

\* C20: a step of the compound splitter or of the level resolver leaves
\* every heading either as it was or, if its provenance was not empty, with
\* that provenance followed by one new entry (compound_split, or a level:
\* entry); a heading given with the label tag and a compound text carries
\* the label tag, compound_split and a level: entry, in that order, once
\* resolved.
C20_ProvenanceAppendOnly ==
    [][/\ pc' \in {"split", "levels_resolved"}
          => /\ Len(HeadingsOf(elements')) = Len(HeadingsOf(elements))
             /\ \A k \in 1..Len(HeadingsOf(elements)) :
                   LET old == HeadingsOf(elements)[k]
                       new == HeadingsOf(elements')[k]
                   IN  (new # old /\ old.classification_reason # <<>>)
                           => Appended(old.classification_reason,
                                       new.classification_reason,
                                       IF pc' = "split" THEN {"compound_split"}
                                       ELSE LevelTags)
       /\ pc' = "levels_resolved"
          => \A i \in 1..Len(given) :
                (IsCompound(given[i]) /\ given[i].classification_reason = LabelReason)
                    => \E tag \in LevelTags :
                          TagsOf(elements'[SplitIndex(given, i)].classification_reason)
                              = <<"docling_label:section_header", "compound_split", tag>>
      ]_vars

\* A labelled heading with a compound text was split and then resolved by
\* the structural rule; it carries the three entries.
C20_Witness ==
    /\ pc = "levels_resolved"
    /\ Len(given) = 2
    /\ IsCompound(given[2])
    /\ given[2].classification_reason = LabelReason
    /\ TagsOf(elements[SplitIndex(given, 2)].classification_reason)
           = <<"docling_label:section_header", "compound_split",
               "level:structural_marker">>

(***************************************************************************)
(* Claims about what the level resolver leaves alone (checked under        *)
(* SpecResolver).                                                          *)
(***************************************************************************)
ResolvedFields == {"level", "confidence", "classification_reason"}

\* The fields of a block that the resolver has no business with.
FrameOf(block) == [k \in DOMAIN block \ ResolvedFields |-> block[k]]

\* C21: a run of the resolver keeps the length and order of the sequence,
\* leaves every element that is no heading as it was, and leaves every field
\* of a heading other than level, confidence and provenance (text, runs,
\* page, type) as it was.
C21_ResolverFrame ==
    pc \in {"resolved", "resolved_twice"}
        => /\ Len(elements) = Len(entry)
           /\ \A i \in 1..Len(entry) :
                 IF entry[i].type = "heading"
                 THEN /\ DOMAIN elements[i] = DOMAIN entry[i]
                      /\ FrameOf(elements[i]) = FrameOf(entry[i])
                 ELSE elements[i] = entry[i]

\* The list with a table, a paragraph, a list item, a figure and a page
\* break between two headings with runs was resolved: the second heading
\* changed level, the runs stayed.
C21_Witness ==
    /\ pc = "resolved"
    /\ entry = FrameExample
    /\ elements[6].level # entry[6].level
    /\ elements[6].runs = entry[6].runs /\ elements[6].runs # <<>>
    /\ elements[4] = entry[4]

(***************************************************************************)
(* Claims about what the compound splitter leaves alone (checked under     *)
(* SpecSplit).                                                             *)
(***************************************************************************)
\* result is the list before with two elements, the first a heading, in the
\* place of every compound heading and every other element as it was.
RECURSIVE PassedThrough(_, _)
PassedThrough(result, before) ==
    IF before = <<>> THEN result = <<>>
    ELSE IF IsCompound(Head(before))
    THEN /\ Len(result) >= 2
         /\ result[1].type = "heading"
         /\ PassedThrough(SubSeq(result, 3, Len(result)), Tail(before))
    ELSE /\ result # <<>>
         /\ Head(result) = Head(before)
         /\ PassedThrough(Tail(result), Tail(before))

\* C22: the splitter passes every element that is no heading (a paragraph
\* with separators too) and every heading without a separator between
\* whitespace through unchanged and in order, so the result has the length
\* of the input plus the number of headings with a separator.
C22_SplitFrame ==
    pc = "split_returned"
        => /\ PassedThrough(elements, entry)
           /\ Len(elements)
                  = Len(entry)
                      + Len(SelectSeq(entry, LAMBDA el :
                                el.type = "heading" /\ SeparatorGlyphs(el.text) # {}))

\* A paragraph with two separators, a heading with two separators and a
\* heading without one went in; four elements came out, the paragraph and
\* the plain heading as they were.
C22_Witness ==
    /\ pc = "split_returned"
    /\ Len(entry) = 3
    /\ entry[1] = ParagraphBlock(TEXT_TWO_SEPARATORS, 1, <<>>)
    /\ IsCompound(entry[2])
    /\ entry[3].type = "heading" /\ ~IsCompound(entry[3])
    /\ Len(elements) = 4
    /\ elements[1] = entry[1]
    /\ elements[4] = entry[3]

(***************************************************************************)
(* Claims about the style of the grouped lists (checked under SpecGroup).  *)
(***************************************************************************)
\* C23: the ListBlock of a run is "ordered" if the first item of the run is
\* enumerated and "unordered" if it is not, whatever the later items are;
\* an unordered ListBlock has no marker format, whatever markers the items
\* of the run carry.
C23_StyleFromFirstItem ==
    pc = "group_list_items_returned"
        => \A a \in RunStarts(entry) :
              LET block == elements[GroupIndex(entry, a)]
              IN  /\ block.style = (IF entry[a].enumerated THEN "ordered" ELSE "unordered")
                  /\ ~entry[a].enumerated => block.marker_format = NoMarkerFormat

\* A run of a bullet item and two enumerated items with the markers a. and
\* ii) became an unordered list without marker format; the same run behind
\* an enumerated first item is ordered.
C23_Witness ==
    /\ pc = "group_list_items_returned"
    /\ Len(entry) = 3
    /\ \A i \in 1..3 : IsPending(entry[i])
    /\ ~entry[1].enumerated
    /\ entry[2].enumerated /\ entry[2].marker = <<"a", ".">>
    /\ entry[3].enumerated /\ entry[3].marker = <<"i", "i", ")">>
    /\ Len(elements) = 1
    /\ elements[1].style = "unordered"
    /\ elements[1].marker_format = NoMarkerFormat

(***************************************************************************)
(* Direct calls of _detect_marker_format, as TestDetectMarkerFormat makes  *)
(* them: lists of enumerated items with the markers below.                 *)
(***************************************************************************)
DetectMarkers ==
    {<<>>, <<" ">>, <<"i", ".">>, <<"a", ")">>, <<"I", ".">>, <<"A", ".">>,
     <<"1", ".">>, <<"i", "v">>, <<" ", "b", ".">>}

DetectItem(marker) == PendingListItem(<<"x">>, <<>>, 1, TRUE, marker, 0)

DetectInputs(n) == {[i \in 1..n |-> DetectItem(ms[i])] : ms \in [1..n -> DetectMarkers]}

DetectInit ==
    /\ pc = "detect_marker_format"
    /\ IdleJson
    /\ IdlePipeline
    /\ format_returned = "not_called"
    /\ \E n \in 0..MaxMarkerItems : elements \in DetectInputs(n)
    /\ has_parts = FALSE
    /\ entry = <<>>
    /\ IdleClassifier /\ IdleTree /\ IdleExtract

\* format_returned = _detect_marker_format(pending)
DetectMarkerFormat ==
    /\ pc = "detect_marker_format"
    /\ pc' = "detect_marker_format_returned"
    /\ format_returned' = detect_marker_format(elements)
    /\ UNCHANGED <<text, out, flat_elements, pos, stack, children, elements, has_parts,
                   entry, items, given, json, restored>>

DetectNext == DetectMarkerFormat

SpecDetect == DetectInit /\ [][DetectNext]_vars

(***************************************************************************)
(* Claims about the marker format (checked under SpecDetect).              *)
(***************************************************************************)
\* The marker without the whitespace around it is empty.
IsBlankMarker(m) == \A i \in 1..Len(m) : m[i] \in Space

\* The first of the first three items whose marker is not blank; 0 if none.
DecidingItem(its) ==
    LET marked == {k \in 1..Len(its) : k <= 3 /\ ~IsBlankMarker(its[k].marker)}
    IN  IF marked = {} THEN 0 ELSE CHOOSE k \in marked : \A j \in marked : k <= j

\* The format one non-blank marker decides: the roman rule with a lowercase
\* first character before the letter rule, the lowercase rules before the
\* uppercase ones.
FormatOfMarker(marker) ==
    LET m == Strip(marker)
        roman == LOWER_ROMAN_RE(m)
        letter == Len(m) >= 2 /\ m[2] \in {".", ")"}
    IN  IF roman /\ m[1] \in Lower THEN "lowerRoman"
        ELSE IF letter /\ m[1] \in Lower THEN "lowerLetter"
        ELSE IF roman /\ m[1] \in Upper THEN "upperRoman"
        ELSE IF letter /\ m[1] \in Upper THEN "upperLetter"
        ELSE NoMarkerFormat

\* C24: the format returned is the one the first non-blank marker among the
\* first three items decides, and none when these three markers are blank or
\* there is no item, whatever the fourth item carries; "i." is lower roman,
\* "I." upper roman, "a)" lower letter, "A." upper letter, "1." none.
C24_MarkerFormat ==
    pc = "detect_marker_format_returned"
        => /\ format_returned
                = (IF DecidingItem(elements) = 0 THEN NoMarkerFormat
                   ELSE FormatOfMarker(elements[DecidingItem(elements)].marker))
           /\ \A k \in 1..Len(elements) :
                 (k <= 3 /\ \A j \in 1..(k - 1) : elements[j].marker \in {<<>>, <<" ">>})
                     => /\ elements[k].marker = <<"i", ".">> => format_returned = "lowerRoman"
                        /\ elements[k].marker = <<"I", ".">> => format_returned = "upperRoman"
                        /\ elements[k].marker = <<"a", ")">> => format_returned = "lowerLetter"
                        /\ elements[k].marker = <<"A", ".">> => format_returned = "upperLetter"
                        /\ elements[k].marker = <<"1", ".">> => format_returned = NoMarkerFormat

\* Three items without marker and a fourth with the marker a) were given;
\* no format was returned.
C24_Witness ==
    /\ pc = "detect_marker_format_returned"
    /\ Len(elements) = 4
    /\ \A k \in 1..3 : IsBlankMarker(elements[k].marker)
    /\ elements[4].marker = <<"a", ")">>
    /\ format_returned = NoMarkerFormat

(***************************************************************************)
(* The stages of _build_ir with _build_heading_tree run step by step: one  *)
(* step per stack.pop() and one per block appended.  The interpreter runs   *)
(* the next statement whenever there is one (weak fairness).               *)
(***************************************************************************)
\* while stack and stack[-1][0] >= block.level
ShouldPop(stk, level) == stk # <<>> /\ stk[Len(stk)][1] >= level

\* The stack as it is, nothing removed.
Popped_Kept(stk) == stk

\* stack.pop()
Popped(stk) == SubSeq(stk, 1, Len(stk) - 1)

\* body = _build_heading_tree(elements): the call.
CoreEnterTree ==
    /\ pc = "grouped"
    /\ pc' = "build_heading_tree"
    /\ flat_elements' = elements
    /\ pos' = 0
    /\ stack' = <<>>
    /\ children' = [i \in 0..Len(elements) |-> <<>>]
    /\ UNCHANGED <<text, out, elements, has_parts, entry, items, given, json, restored,
                   format_returned>>

\* One stack.pop() of the while loop on a HeadingBlock.
CorePop ==
    /\ pc = "build_heading_tree"
    /\ pos < Len(flat_elements)
    /\ IsHeading(flat_elements[pos + 1])
    /\ ShouldPop(stack, flat_elements[pos + 1].level)
    /\ stack' = Popped(stack)
    /\ UNCHANGED <<pc, text, out, flat_elements, pos, children, elements, has_parts, entry,
                   items, given, json, restored, format_returned>>

\* The rest of the iteration on a HeadingBlock, once the while loop is over.
CorePush ==
    /\ pc = "build_heading_tree"
    /\ pos < Len(flat_elements)
    /\ IsHeading(flat_elements[pos + 1])
    /\ ~ShouldPop(stack, flat_elements[pos + 1].level)
    /\ LET block == pos + 1
       IN  /\ children' = [children EXCEPT ![HeadingTarget(stack)] = Append1(@, block)]
           /\ stack' = Append1(stack, <<flat_elements[block].level, block>>)
           /\ pos' = block
    /\ UNCHANGED <<pc, text, out, flat_elements, elements, has_parts, entry, items, given,
                   json, restored, format_returned>>

CoreNext ==
    \/ PipelineSplit
    \/ PipelinePromoteParagraphs
    \/ PipelinePromoteListItems
    \/ PipelineResolve
    \/ PipelineGroup
    \/ CoreEnterTree
    \/ CorePop
    \/ CorePush
    \/ TreeContent
    \/ TreeReturn

\* A stage of _build_ir has been run.  The only guard of a stage is pc, so
\* this step can be taken whenever the stage can.
StageReturns ==
    \/ pc = "pipeline" /\ pc' = "split"
    \/ pc = "split" /\ pc' = "paragraphs_promoted"
    \/ pc = "paragraphs_promoted" /\ pc' = "list_items_promoted"
    \/ pc = "list_items_promoted" /\ pc' = "levels_resolved"
    \/ pc = "levels_resolved" /\ pc' = "grouped"

TreeSteps == CoreEnterTree \/ CorePop \/ CorePush \/ TreeContent \/ TreeReturn

SpecCore ==
    PipelineInit /\ [][CoreNext]_vars /\ WF_pc(StageReturns) /\ WF_vars(TreeSteps)

(***************************************************************************)
(* Claims about termination (checked under SpecCore).                      *)
(***************************************************************************)
\* What is left to do in _build_heading_tree: two units per block not yet
\* appended (its own step and the pop of it, if a heading) less one per
\* heading that can no longer be pushed but can still be popped.
Remaining(flat, p, stk) == 2 * (Len(flat) - p) + Len(stk)

\* The number of pops _nest_list_items makes on the run pending, from item k.
RECURSIVE NestPops(_, _, _)
NestPops(pending, k, stk) ==
    IF k > Len(pending) THEN 0
    ELSE LET depth == pending[k].nesting_depth - pending[1].nesting_depth
             popped == PopItems(stk, depth)
         IN  (Len(stk) - Len(popped)) + NestPops(pending, k + 1, Append1(popped, <<depth, k>>))

\* C25: every run of the stages on a given list goes through the splitter,
\* both promoters, the resolver, the grouper and the tree builder and
\* returns; every step of the tree builder, a pop included, uses up what
\* remains, which is twice the length of the list at the start, so there is
\* at most one pop per heading pushed; the list nester makes at most one pop
\* per item of a run; an empty list stays empty through every stage and
\* gives an empty tree.
C25_Total ==
    /\ <>(pc = "built")
    /\ [][pc' = "build_heading_tree"
             => IF pc = "grouped"
                THEN Remaining(flat_elements', pos', stack') = 2 * Len(elements)
                ELSE /\ Remaining(flat_elements', pos', stack')
                            < Remaining(flat_elements, pos, stack)
                     /\ Remaining(flat_elements', pos', stack') >= 0]_vars
    /\ [](pc = "levels_resolved"
             => \A a \in RunStarts(elements) :
                   LET run == SubSeq(elements, a, RunEndOf(elements, a))
                   IN  NestPops(run, 1, <<>>) <= Len(run))
    /\ [](given = <<>>
             => /\ elements = <<>>
                /\ pc \in {"build_heading_tree", "built"}
                      => flat_elements = <<>> /\ children[0] = <<>>)

\* The tree of two headings of the same level was built: the first was
\* popped when the second came, and the builder returned.
C25_Witness ==
    /\ pc = "built"
    /\ Len(flat_elements) = 2
    /\ IsHeading(flat_elements[1]) /\ IsHeading(flat_elements[2])
    /\ flat_elements[1].level = flat_elements[2].level
    /\ children[0] = <<1, 2>>
    /\ stack = <<<<flat_elements[2].level, 2>>>>

(***************************************************************************)
(* Claims about the content of the tree (checked under SpecTree).          *)
(***************************************************************************)
\* C26: the depth-first pre-order walk of the returned tree, a heading
\* before its children and the children in order, is the flat input: every
\* block once, in the input order, so the tree has as many nodes as the
\* input has blocks.
C26_PreOrderIsInput ==
    pc = "built"
        => /\ Below(0) = [k \in 1..Len(flat_elements) |-> k]
           /\ Len(Below(0)) = Len(flat_elements)

\* A heading, a deeper heading with a content block and a heading of the
\* first level were built into a tree of two roots whose walk is the input.
C26_Witness ==
    /\ pc = "built"
    /\ Len(flat_elements) = 4
    /\ children[0] = <<1, 4>>
    /\ children[1] = <<2>>
    /\ children[2] = <<3>>
    /\ ~IsHeading(flat_elements[3])
    /\ Below(0) = <<1, 2, 3, 4>>

(***************************************************************************)
(* Claims about the stack of open headings (checked under SpecTree).       *)
(***************************************************************************)
\* The headings among the first pos blocks of the input.
Processed == {j \in Headings : j <= pos}

\* C27: after every processed element the stack is the chain of the most
\* recently processed heading and its ancestors: empty before the first
\* heading, otherwise its top is the most recent heading, every entry is a
\* child of the entry below it, the bottom entry is in the root list, every
\* entry carries the level of its heading and the levels strictly increase
\* from bottom to top, so the stack never holds more entries than there
\* are levels (MaxLevel here, 9 in the schema).
C27_StackIsAncestorChain ==
    /\ (stack = <<>>) <=> (Processed = {})
    /\ stack # <<>> => stack[Len(stack)][2] = Latest(Processed)
    /\ stack # <<>> => stack[1][2] \in Elems(children[0])
    /\ \A k \in 1..Len(stack) :
          /\ stack[k][2] \in Processed
          /\ stack[k][1] = LevelOf(stack[k][2])
    /\ \A k \in 1..(Len(stack) - 1) :
          /\ stack[k + 1][2] \in Elems(children[stack[k][2]])
          /\ stack[k][1] < stack[k + 1][1]
    /\ Len(stack) <= MaxLevel

\* In the middle of a pass the stack holds MaxLevel headings, one per level,
\* and a heading was closed before the chain was opened.
C27_Witness ==
    /\ pc = "build_heading_tree"
    /\ pos = Len(flat_elements)
    /\ Len(stack) = MaxLevel
    /\ stack[1][2] = 2
    /\ IsHeading(flat_elements[1])

(***************************************************************************)
(* The promoters followed by the resolver, as _build_ir runs them on the   *)
(* elements the splitter returned.                                         *)
(***************************************************************************)
TEXT_TWO_LEVEL_DOT == <<"1", "2", ".", "3", "4", ".", "\t", " ", "x">>

PromotedSamples ==
    {ParagraphBlock(TEXT_SCOPE, 1, <<>>),
     ParagraphBlock(TEXT_THREE_LEVEL_OVER_LIMIT, 2, PromoteRuns),
     ParagraphBlock(TEXT_TWO_LEVEL_AT_LIMIT, 1, <<>>),
     ParagraphBlock(TEXT_TWO_LEVEL_DOT, 1, <<>>),
     PendingListItem(TEXT_NINE_SEGMENTS, <<>>, 1, FALSE, <<>>, 0),
     PendingListItem(TEXT_TWO_LEVEL_UNDER_LIMIT, PromoteRuns, 2, TRUE, <<"1", ".">>, 1),
     PendingListItem(TEXT_RFIS, <<>>, 1, FALSE, <<>>, 0),
     HeadingBlock(2, TEXT_RFIS, 1, <<>>, 85, LabelReason),
     HeadingBlock(2, TEXT_PART_I, 1, <<>>, 85, LabelReason)}

PromotedInputs(n) == [1..n -> PromotedSamples]

PromotedInit ==
    /\ pc = "split"
    /\ IdleJson
    /\ IdleDetect
    /\ \E n \in 0..MaxPromoted : given \in PromotedInputs(n)
    /\ elements = given
    /\ has_parts \in BOOLEAN
    /\ entry = <<>>
    /\ IdleClassifier /\ IdleTree /\ IdleExtract

PromotedNext ==
    \/ BuildIrPromoteParagraphs
    \/ BuildIrPromoteListItems
    \/ BuildIrResolve

SpecPromoted == PromotedInit /\ [][PromotedNext]_vars

(***************************************************************************)
(* Claims about promoted headings (checked under SpecPromoted).            *)
(***************************************************************************)
\* The positions of the heading candidates a promoter created.
PromotedIndices ==
    {i \in 1..Len(elements) :
        /\ given[i].type \in {"paragraph", "pending_list_item"}
        /\ elements[i].type = "heading"}

\* The confidence a promoter gives a block of type ty for k segments.
PromotionConfidence(ty, k) ==
    IF ty = "paragraph" THEN (IF k >= 3 THEN 90 ELSE 70)
    ELSE (IF k >= 3 THEN 85 ELSE 65)

\* C28: a heading candidate created by either promoter is resolved by the
\* numbering rule and by no other: with k the number of numeric segments
\* that triggered the promotion its final level is min(k + level_offset, 9),
\* its reason is the promoter's entry followed by the numbering entry alone,
\* also when it is the first heading, and its final confidence is the
\* promotion confidence (90 or 70 for paragraphs, 85 or 65 for list items).
C28_PromotedByNumbering ==
    pc = "levels_resolved"
        => /\ Len(elements) = Len(given)
           /\ \A i \in PromotedIndices :
                 /\ Cardinality(MultiLevelSegments(given[i].text)) = 1
                 /\ \A k \in MultiLevelSegments(given[i].text) :
                       /\ elements[i].level = Min(k + LevelOffset(has_parts), 9)
                       /\ elements[i].confidence
                              = PromotionConfidence(given[i].type, k)
                       /\ Len(elements[i].classification_reason) = 2
                       /\ elements[i].classification_reason[2]
                              = ReasonEntry("level:numbering", Min(k, 9),
                                            LevelOffset(has_parts))
                       /\ elements[i].classification_reason[1][1]
                              \notin {"level:numbering", "level:structural_marker",
                                      "level:first_heading_as_title", "level:inherited"}

\* A promoted 2-segment paragraph is the first heading and is at level 3
\* under the offset, a promoted 9-segment list item stays at level 9, and a
\* labelled heading after them inherits.
C28_Witness ==
    /\ pc = "levels_resolved"
    /\ has_parts
    /\ Len(given) = 3
    /\ given[1] = ParagraphBlock(TEXT_SCOPE, 1, <<>>)
    /\ elements[1].level = 3
    /\ elements[1].confidence = 70
    /\ given[2].type = "pending_list_item"
    /\ elements[2].type = "heading"
    /\ elements[2].level = 9
    /\ elements[2].confidence = 85
    /\ given[3].type = "heading"
    /\ LastReasonTag(elements[3]) = "level:inherited"

(***************************************************************************)
(* Claims about the initial last_level (checked under SpecResolver).       *)
(***************************************************************************)
\* The headings the run resolved by inheritance.
InheritedIndices ==
    {i \in HeadingIndices(elements) : LastReasonTag(elements[i]) = "level:inherited"}

\* C29: the value last_level is initialised with is never observable: the
\* run started with any other initial value returns the same list, and
\* every heading resolved by inheritance has a preceding heading whose
\* assigned level is both the level it holds and the level its reason
\* records.
C29_InitialLastLevelUnobservable ==
    pc \in {"resolved", "resolved_twice"}
        => /\ \A v \in 1..9 :
                 ResolveLoop(entry, 1, FALSE, v, LevelOffset(has_parts)) = elements
           /\ \A i \in InheritedIndices :
                 LET earlier == {j \in HeadingIndices(elements) : j < i}
                     reason == elements[i].classification_reason
                 IN  /\ earlier # {}
                     /\ elements[i].level = elements[Latest(earlier)].level
                     /\ reason[Len(reason)][2] = elements[Latest(earlier)].level

\* Under the offset the inheritance example's unnumbered headings inherited
\* level 3 from the numbered heading before them, not the initial value.
C29_Witness ==
    /\ pc = "resolved"
    /\ entry = InheritanceExample
    /\ has_parts
    /\ InheritedIndices = {4, 5}
    /\ elements[4].level = 3
    /\ elements[4].level # InitialLastLevel

(***************************************************************************)
(* Claims about a second run of the splitter (checked under SpecSplit).    *)
(***************************************************************************)
\* C30: the splitter is idempotent: no heading of a list it returned holds
\* a separator glyph between whitespace, and a second run on that list
\* returns it as it is, the inserted paragraphs with their separators and
\* every heading's confidence and provenance included.
C30_SplitIdempotent ==
    /\ pc = "split_returned"
          => \A i \in HeadingIndices(elements) : SeparatorGlyphs(elements[i].text) = {}
    /\ pc = "split_twice" => elements = entry

\* The second run was given a split heading followed by the paragraph that
\* still holds the second separator.
C30_Witness ==
    /\ pc = "split_twice"
    /\ Len(entry) = 2
    /\ entry[1].type = "heading"
    /\ LastReasonTag(entry[1]) = "compound_split"
    /\ entry[1].confidence = 75
    /\ entry[2].type = "paragraph"
    /\ SeparatorGlyphs(entry[2].text) # {}
    /\ elements = entry

====
